---- MODULE Spec2Model ----
(***************************************************************************)
(* Position lifecycle and signal de-duplication of SIGNAL-ALERT v2.2.      *)
(*                                                                         *)
(* Prices are integers counted in units of 1e-8, the quantum to which      *)
(* PositionManager._calculate_levels rounds every level (round(x, 8)).     *)
(* Percentages are per mille (3.0% = 30), the tolerance 0.005 is 5 per     *)
(* mille, and every comparison of the code between a price and a           *)
(* level*(1 +/- tolerance) is done exactly by cross-multiplication.        *)
(* Instants are minutes on a logical clock, now.                           *)
(***************************************************************************)
EXTENDS Integers, Sequences, FiniteSets, TLC

(***************************************************************************)
(* Bounds of the model.                                                    *)
(***************************************************************************)
Symbols == {"BTC"}
\* the instruments positions are kept for
AllSymbols == {"BTC", "ETH"}
\* the intervals signals are evaluated on, and those positions are opened on
Timeframes == {"15m", "1d", "4h"}
SeqTimeframes == {"15m"}
\* the intervals positions are kept for
PosTimeframes == {"15m", "1d"}
Directions == {"LONG", "SHORT"}
\* entry price of signals, at which every level is exact, and the prices
\* the market-data collaborator may report for it
EntryPrices == {1000}
FeedPrices == {972, 1028, 1080}
\* an entry price of one quantum (all levels round to the same price), and
\* the prices reported for it
TieEntryPrices == {1}
TieFeedPrices == {1, 2}
\* reasons passed to close_position by callers
Reasons == {"MANUAL"}
\* the callers that run concurrently (the scheduler's job thread, the monitor
\* thread, the WebSocket callback thread, the HTTP request threads)
Threads == {"caller1", "caller2"}
\* bound of the logical clock in the sequential specification
MaxNow == 1
\* the instants (minutes) the clock is read at where cooldowns matter: just
\* before and at the hour, and at the day
Clock == {0, 59, 60, 1440}
\* the instants of the specifications that also hold positions
ShortClock == {0, 60}

NoPos == [status |-> "ABSENT"]
NoHist == [date |-> -1]

\* ids of positions, and keys of history records
Keys == AllSymbols \X PosTimeframes \X Directions
HistKeys == AllSymbols \X Timeframes \X Directions
Pairs == Symbols \X Timeframes
TpNames == {"TP1", "TP2", "TP3"}
Events == {"TP1_hit", "TP2_hit", "TP3_hit", "sl_hit", "position_closed"}
NoUpdates == [k \in Keys |-> {}]

\* the scheduler's own deduplication table (scheduler.py lines 50-53); its
\* keys are symbol_timeframe_direction, NoTime stands for no entry
SchedTimeframes == {"4h"}
SchedKeys == Symbols \X SchedTimeframes \X Directions
NoTime == -1
NoSignals == [k \in SchedKeys |-> NoTime]

\* DataManager.price_cache (data_manager.py lines 42 and 115): its keys are
\* "price_<symbol>", NoPrice stands for no entry
CacheKey(symbol) == "price_" \o symbol
CacheKeys == {CacheKey(s) : s \in AllSymbols}
NoPrice == 0
NoCache == [k \in CacheKeys |-> NoPrice]

\* WebSocketManager.__init__ (websocket_manager.py lines 25-49).  thread
\* holds where each thread the manager started stands, ws is the thread of
\* the WebSocketApp in self.ws (0 for None), changing says that a caller is
\* inside change_stream
WsThreads == 1..3
max_reconnect_attempts == 10
NewWebSocketManager ==
    [is_running |-> FALSE, reconnect_attempts |-> 0, ws |-> 0,
     thread |-> [t \in WsThreads |-> "none"], changing |-> FALSE]

\* main.py lines 62-75: nothing is initialised when the module is loaded
NoServices == [initialized |-> FALSE, position_manager |-> FALSE,
               scheduler |-> FALSE]

VARIABLES
    positions,          \* PositionManager.positions: key -> position or NoPos
    active_positions,   \* SignalDetector.active_positions: set of keys
    signal_history,     \* SignalHistoryManager.signal_history: key -> record
    now,                \* datetime.now(), in minutes
    lastOp,             \* the last operation called and its arguments
    lastReturn,         \* what the last operation returned
    lastUpdates,        \* the dictionary the last update_positions returned
    pc,                 \* where each concurrent caller stands in its call
    local,              \* the local variables of each concurrent caller
    emitted,            \* how often each crossing was returned to a caller
    accepted,           \* per position key, when a notification was last accepted
    disk,               \* data/positions.json, its .backup, signal_history_1d.json
    durable,            \* the snapshots the last completed saves wrote
    services,           \* the services dictionary of main.py
    last_signals,       \* SignalScheduler.last_signals: key -> time or NoTime
    price_cache,        \* DataManager.price_cache: key -> price or NoPrice
    wsm                 \* a WebSocketManager and the threads it started

vars == <<positions, active_positions, signal_history, now,
          lastOp, lastReturn, lastUpdates, pc, local, emitted, accepted,
          disk, durable, services, last_signals, price_cache, wsm>>

storeVars == <<disk, durable, services, last_signals, price_cache, wsm>>

\* what the sequential operations never touch
callerVars == <<pc, local, emitted, accepted>>

(***************************************************************************)
(* Pure helpers.                                                           *)
(***************************************************************************)
PositionId(symbol, timeframe, direction) == <<symbol, timeframe, direction>>

Opposite(direction) == IF direction = "LONG" THEN "SHORT" ELSE "LONG"

\* Python's round(): nearest, ties to even; n >= 0, d > 0
RoundHalfEven(n, d) ==
    LET q == n \div d
        r == n % d
    IN  IF 2 * r < d THEN q
        ELSE IF 2 * r > d THEN q + 1
        ELSE IF q % 2 = 0 THEN q ELSE q + 1

RoundSigned(n, d) ==
    IF n >= 0 THEN RoundHalfEven(n, d) ELSE 0 - RoundHalfEven(0 - n, d)

\* fallback table of position_manager.py (config.settings has no
\* module-level RISK_MANAGEMENT, so the import fails), per mille
RISK_MANAGEMENT(timeframe) ==
    IF timeframe = "1h" THEN [tp_levels |-> <<20, 35, 50>>, sl_level |-> 20]
    ELSE IF timeframe = "1d" THEN [tp_levels |-> <<50, 80, 120>>, sl_level |-> 40]
    ELSE [tp_levels |-> <<30, 50, 70>>, sl_level |-> 30]

PRICE_TOLERANCE == 5

calculate_levels(entry_price, direction, timeframe) ==
    LET risk_config == RISK_MANAGEMENT(timeframe)
        tp == risk_config.tp_levels
        sl == risk_config.sl_level
    IN  IF direction = "LONG"
        THEN [tp_levels |-> [i \in 1..3 |->
                                RoundHalfEven(entry_price * (1000 + tp[i]), 1000)],
              sl_level |-> RoundHalfEven(entry_price * (1000 - sl), 1000)]
        ELSE [tp_levels |-> [i \in 1..3 |->
                                RoundHalfEven(entry_price * (1000 - tp[i]), 1000)],
              sl_level |-> RoundHalfEven(entry_price * (1000 + sl), 1000)]

\* validate_price_data: a price that is not None and > 0
validate_price_data(price) == price > 0

\* previous_price is <<>> for None and <<p>> for a price p
validate_price_sanity(price, previous_price) ==
    /\ price > 0
    /\ (previous_price # <<>> /\ previous_price[1] > 0) =>
          LET prev == previous_price[1]
              diff == IF price >= prev THEN price - prev ELSE prev - price
          IN  ~(diff * 100 > 30 * prev)

\* dict.get: <<>> for None
price_cache_get(cache, key) ==
    IF key \in CacheKeys /\ cache[key] # NoPrice THEN <<cache[key]>> ELSE <<>>

\* create_position reads data_manager.price_cache.get(symbol) (line 48); the
\* cache is keyed "price_<symbol>", so the lookup by the bare symbol finds
\* nothing
CachedPrice(symbol) == price_cache_get(price_cache, symbol)

pnl_pct(entry_price, direction, current_price) ==
    IF direction = "LONG"
    THEN RoundSigned((current_price - entry_price) * 10000, entry_price)
    ELSE RoundSigned((entry_price - current_price) * 10000, entry_price)

\* TpReached with the tolerance left out: the price has to reach the target
TpReachedExact(direction, current_price, tp_price) ==
    IF direction = "LONG"
    THEN current_price >= tp_price
    ELSE current_price <= tp_price

TpReached(direction, current_price, tp_price) ==
    IF direction = "LONG"
    THEN current_price * 1000 >= tp_price * (1000 - PRICE_TOLERANCE)
    ELSE current_price * 1000 <= tp_price * (1000 + PRICE_TOLERANCE)

\* SlReached with a tolerance of 1% in place of PRICE_TOLERANCE
SlReachedWide(direction, current_price, sl_level) ==
    IF direction = "LONG"
    THEN current_price * 1000 <= sl_level * (1000 + 10)
    ELSE current_price * 1000 >= sl_level * (1000 - 10)

SlReached(direction, current_price, sl_level) ==
    IF direction = "LONG"
    THEN current_price * 1000 <= sl_level * (1000 + PRICE_TOLERANCE)
    ELSE current_price * 1000 >= sl_level * (1000 - PRICE_TOLERANCE)

TpEvent(i) == IF i = 1 THEN "TP1_hit" ELSE IF i = 2 THEN "TP2_hit" ELSE "TP3_hit"

IsActive(pos) == pos.status = "ACTIVE"

ActiveKeys(ps) == {k \in Keys : IsActive(ps[k])}

(***************************************************************************)
(* PositionManager.                                                        *)
(***************************************************************************)
NewPosition(symbol, timeframe, direction, entry_price, t) ==
    LET levels == calculate_levels(entry_price, direction, timeframe)
    IN  [status |-> "ACTIVE",
         symbol |-> symbol,
         timeframe |-> timeframe,
         direction |-> direction,
         entry_price |-> entry_price,
         entry_time |-> t,
         tp_levels |-> levels.tp_levels,
         sl_level |-> levels.sl_level,
         tp_hit |-> [i \in 1..3 |-> FALSE],
         sl_hit |-> FALSE,
         current_price |-> entry_price,
         pnl_pct |-> 0,
         signal_strength |-> 100,
         last_update |-> t,
         close_reason |-> "",
         close_time |-> -1]

\* the check of create_position for an existing position (lines 54-59)
ExistingBlocks(ps, position_id) ==
    ps[position_id] # NoPos /\ ps[position_id].status = "ACTIVE"

\* create_position without the two checks of the entry price
CreateUnvalidated(ps, symbol, timeframe, direction, entry_price, t) ==
    LET position_id == PositionId(symbol, timeframe, direction)
    IN  IF ExistingBlocks(ps, position_id)
        THEN [positions |-> ps, id |-> <<>>]
        ELSE [positions |-> [ps EXCEPT ![position_id] =
                               NewPosition(symbol, timeframe, direction, entry_price, t)],
              id |-> position_id]

create_position(ps, symbol, timeframe, direction, entry_price, t) ==
    LET position_id == PositionId(symbol, timeframe, direction)
    IN  IF ~validate_price_data(entry_price)
           \/ ~validate_price_sanity(entry_price, CachedPrice(symbol))
           \/ ExistingBlocks(ps, position_id)
        THEN [positions |-> ps, id |-> <<>>]
        ELSE [positions |-> [ps EXCEPT ![position_id] =
                               NewPosition(symbol, timeframe, direction, entry_price, t)],
              id |-> position_id]

\* lines 161-169: the target is not flagged yet and the price reached it
TpTest(pos, i, current_price) ==
    ~pos.tp_hit[i] /\ TpReached(pos.direction, current_price, pos.tp_levels[i])

\* TpSet writing a fresh tp_hit dictionary with only this target flagged
TpSetOnlyThis(st, i, t) ==
    LET p1 == [st.position EXCEPT !.tp_hit = [j \in 1..3 |-> j = i]]
        all_hit == \A j \in 1..3 : p1.tp_hit[j]
    IN  [position |-> IF all_hit
                      THEN [p1 EXCEPT !.status = "CLOSED",
                                      !.close_reason = "ALL_TP_HIT",
                                      !.close_time = t]
                      ELSE p1,
         updates |-> st.updates \cup {TpEvent(i)}
                       \cup (IF all_hit THEN {"position_closed"} ELSE {})]

\* TpSet closing only once the stop is flagged as well
TpSetLeavesOpen(st, i, t) ==
    LET p1 == [st.position EXCEPT !.tp_hit[i] = TRUE]
        all_hit == (\A j \in 1..3 : p1.tp_hit[j]) /\ p1.sl_hit
    IN  [position |-> IF all_hit
                      THEN [p1 EXCEPT !.status = "CLOSED",
                                      !.close_reason = "ALL_TP_HIT",
                                      !.close_time = t]
                      ELSE p1,
         updates |-> st.updates \cup {TpEvent(i)}
                       \cup (IF all_hit THEN {"position_closed"} ELSE {})]

\* lines 171-187: flag the target, report it, close when all are flagged
TpSet(st, i, t) ==
    LET p1 == [st.position EXCEPT !.tp_hit[i] = TRUE]
        all_hit == \A j \in 1..3 : p1.tp_hit[j]
    IN  [position |-> IF all_hit
                      THEN [p1 EXCEPT !.status = "CLOSED",
                                      !.close_reason = "ALL_TP_HIT",
                                      !.close_time = t]
                      ELSE p1,
         updates |-> st.updates \cup {TpEvent(i)}
                       \cup (IF all_hit THEN {"position_closed"} ELSE {})]

\* lines 190-198: the stop is not flagged yet and the price reached it
SlTest(pos, current_price) ==
    ~pos.sl_hit /\ SlReached(pos.direction, current_price, pos.sl_level)

\* SlSet flagging the stop but leaving the position open
SlSetKeepsOpen(st, t) ==
    [position |-> [st.position EXCEPT !.sl_hit = TRUE],
     updates |-> st.updates \cup {"sl_hit", "position_closed"}]

\* lines 200-213: flag the stop, close the position, report both
SlSet(st, t) ==
    [position |-> [st.position EXCEPT !.sl_hit = TRUE,
                                      !.status = "CLOSED",
                                      !.close_reason = "SL_HIT",
                                      !.close_time = t],
     updates |-> st.updates \cup {"sl_hit", "position_closed"}]

\* TpStep without the test "if not position['tp_hit'][tp_name]"
TpStepNoHitGuard(st, i, current_price, t) ==
    IF TpReached(st.position.direction, current_price, st.position.tp_levels[i])
    THEN TpSet(st, i, t) ELSE st

\* one pass of the loop over tp_levels (lines 160-187)
TpStep(st, i, current_price, t) ==
    IF TpTest(st.position, i, current_price) THEN TpSet(st, i, t) ELSE st

\* the stop-loss check (lines 189-213)
SlStep(st, current_price, t) ==
    IF SlTest(st.position, current_price) THEN SlSet(st, t) ELSE st

\* check_tp_sl_hits with the stop checked before the targets
CheckStopFirst(position, current_price, t) ==
    LET s0 == [position |-> position, updates |-> {}]
        s1 == SlStep(s0, current_price, t)
        s2 == TpStep(s1, 1, current_price, t)
        s3 == TpStep(s2, 2, current_price, t)
    IN  TpStep(s3, 3, current_price, t)

\* check_tp_sl_hits looking only at the next target in sequence
CheckNextTargetOnly(position, current_price, t) ==
    LET s0 == [position |-> position, updates |-> {}]
        next == IF ~position.tp_hit[1] THEN 1
                ELSE IF ~position.tp_hit[2] THEN 2 ELSE 3
    IN  SlStep(TpStep(s0, next, current_price, t), current_price, t)

check_tp_sl_hits(position, current_price, t) ==
    LET s0 == [position |-> position, updates |-> {}]
        s1 == TpStep(s0, 1, current_price, t)
        s2 == TpStep(s1, 2, current_price, t)
        s3 == TpStep(s2, 3, current_price, t)
    IN  SlStep(s3, current_price, t)

\* Reprice that takes the new price as the entry price as well
RepriceMovesEntry(position, current_price, t) ==
    [position EXCEPT
        !.current_price = current_price,
        !.entry_price = current_price,
        !.last_update = t,
        !.pnl_pct = 0]

\* lines 119-133 of update_positions: the new price and the P&L
Reprice(position, current_price, t) ==
    [position EXCEPT
        !.current_price = current_price,
        !.last_update = t,
        !.pnl_pct = pnl_pct(position.entry_price, position.direction, current_price)]

\* lines 119-138 of update_positions, for one position of the snapshot
UpdateOne(position, current_price, t) ==
    check_tp_sl_hits(Reprice(position, current_price, t), current_price, t)

\* the positions update_positions works on (lines 102-103)
ActiveSnapshot(ps) == ActiveKeys(ps)

\* update_positions giving up the whole cycle when one price is missing
UpdateStopsAtMissing(ps, current_prices, t) ==
    LET active == ActiveSnapshot(ps)
        touched == IF \A k \in active : k[1] \in DOMAIN current_prices
                   THEN active ELSE {}
        res == [k \in touched |-> UpdateOne(ps[k], current_prices[k[1]], t)]
    IN  [positions |-> [k \in Keys |-> IF k \in touched THEN res[k].position
                                        ELSE ps[k]],
         updates |-> [k \in Keys |-> IF k \in touched THEN res[k].updates
                                      ELSE {}]]

\* current_prices is a map symbol -> price; a symbol may be missing
update_positions(ps, current_prices, t) ==
    LET active == ActiveSnapshot(ps)
        touched == {k \in active : k[1] \in DOMAIN current_prices}
        res == [k \in touched |-> UpdateOne(ps[k], current_prices[k[1]], t)]
    IN  [positions |-> [k \in Keys |-> IF k \in touched THEN res[k].position
                                        ELSE ps[k]],
         updates |-> [k \in Keys |-> IF k \in touched THEN res[k].updates
                                      ELSE {}]]

get_position_status(ps, symbol, timeframe) ==
    {k \in Keys : k[1] = symbol /\ k[2] = timeframe /\ IsActive(ps[k])}

close_position(ps, position_id, reason, t) ==
    IF ps[position_id] # NoPos
    THEN [positions |-> [ps EXCEPT ![position_id] =
                           [@ EXCEPT !.status = "CLOSED",
                                     !.close_reason = reason,
                                     !.close_time = t]],
          success |-> TRUE]
    ELSE [positions |-> ps, success |-> FALSE]

(***************************************************************************)
(* SignalDetector.                                                         *)
(***************************************************************************)
has_active_position_strict(ps, ap, symbol, timeframe) ==
    \/ get_position_status(ps, symbol, timeframe) # {}
    \/ \E d \in Directions : IsActive(ps[PositionId(symbol, timeframe, d)])
    \/ \E k \in ap : k[1] = symbol /\ k[2] = timeframe

\* signal is "LONG" (signals.buy), "SHORT" (signals.short) or "NONE"
handle_signal_position_fixed(ps, ap, symbol, timeframe, signal, current_price, t) ==
    LET refused == [positions |-> ps, active_positions |-> ap, created |-> FALSE]
        position_key == PositionId(symbol, timeframe, signal)
    IN  IF has_active_position_strict(ps, ap, symbol, timeframe) THEN refused
        ELSE IF signal = "NONE" THEN refused
        ELSE IF position_key \in ap THEN refused
        ELSE IF get_position_status(ps, symbol, timeframe) # {} THEN refused
        ELSE IF \E d \in Directions : IsActive(ps[PositionId(symbol, timeframe, d)])
             THEN refused
        ELSE LET c == create_position(ps, symbol, timeframe, signal, current_price, t)
             IN  IF c.id # <<>>
                 THEN [positions |-> c.positions,
                       active_positions |-> ap \cup {position_key},
                       created |-> TRUE]
                 ELSE [positions |-> c.positions, active_positions |-> ap,
                       created |-> FALSE]

force_close_position(ps, ap, symbol, timeframe, reason, t) ==
    LET c1 == close_position(ps, PositionId(symbol, timeframe, "LONG"), reason, t)
        c2 == IF c1.success THEN c1
              ELSE close_position(ps, PositionId(symbol, timeframe, "SHORT"), reason, t)
    IN  IF c2.success
        THEN [positions |-> c2.positions,
              active_positions |-> ap \ {PositionId(symbol, timeframe, d) : d \in Directions},
              success |-> TRUE]
        ELSE [positions |-> ps, active_positions |-> ap, success |-> FALSE]

(***************************************************************************)
(* SignalHistoryManager.                                                   *)
(***************************************************************************)
\* the cooldown table with a default of one day
CooldownDefaultDay(timeframe) ==
    IF timeframe = "15m" THEN 60
    ELSE IF timeframe = "1d" THEN 1440
    ELSE 1440

get_cooldown_minutes(timeframe) ==
    IF timeframe = "15m" THEN 60
    ELSE IF timeframe = "1d" THEN 1440
    ELSE 60

should_notify(hist, symbol, timeframe, signal_type, t) ==
    LET key == PositionId(symbol, timeframe, signal_type)
    IN  \/ hist[key] = NoHist
        \/ t - hist[key].date >= get_cooldown_minutes(timeframe)

record_signal(hist, symbol, timeframe, signal_type, current_price, t) ==
    [hist EXCEPT ![PositionId(symbol, timeframe, signal_type)] =
        [price |-> current_price, date |-> t]]

\* clear_opposite_signal deleting the records of both directions of the pair
ClearBothDirections(hist, symbol, timeframe, signal_type) ==
    [hist EXCEPT ![PositionId(symbol, timeframe, Opposite(signal_type))] = NoHist,
                 ![PositionId(symbol, timeframe, signal_type)] = NoHist]

clear_opposite_signal(hist, symbol, timeframe, signal_type) ==
    [hist EXCEPT ![PositionId(symbol, timeframe, Opposite(signal_type))] = NoHist]

(***************************************************************************)
(* The operations, each called to completion (no other caller runs         *)
(* meanwhile): the sequential specification.                               *)
(***************************************************************************)
Signals == Directions \cup {"NONE"}
Feeds == UNION {[S -> FeedPrices] : S \in SUBSET Symbols}
NoFeed == [s \in {} |-> 0]
NoId == <<>>

Crossings == {"TP1_hit", "TP2_hit", "TP3_hit", "sl_hit"}
IdleLocal == [created |-> FALSE]

NoneEmitted == [e \in Crossings |-> 0]

\* the crossings a returned dictionary reports, counted per position
Emit(em, updates) ==
    [k \in Keys |-> [e \in Crossings |->
        IF e \in updates[k] THEN em[k][e] + 1 ELSE em[k][e]]]

\* a notification for key passed the history gate at time t
Accept(acc, key, timeframe, t) ==
    [acc EXCEPT ![key] =
        [last |-> t,
         too_soon |-> @.too_soon
                        \/ (@.last # -1 /\ t - @.last < get_cooldown_minutes(timeframe))]]

(***************************************************************************)
(* Files.  A file is missing, holds a complete JSON document, or holds the *)
(* beginning of one (open(..., 'w') truncates, json.dump writes piece by   *)
(* piece); the beginning of a JSON object never parses.                    *)
(***************************************************************************)
Missing == [kind |-> "missing"]
Partial == [kind |-> "partial"]
Full(data) == [kind |-> "full", data |-> data]

NoPositions == [k \in Keys |-> NoPos]
NoHistory == [k \in HistKeys |-> NoHist]

\* JSONManager.save_json run to its end without an error
save_json(d, data) ==
    [d EXCEPT !.backup_file = IF d.positions_file # Missing
                              THEN d.positions_file ELSE @,
              !.positions_file = Full(data)]

\* JSONManager.load_json(self.positions_file, {})
load_json(d) ==
    IF d.positions_file = Missing THEN NoPositions
    ELSE IF d.positions_file.kind = "full" THEN d.positions_file.data
    ELSE IF d.backup_file.kind = "full" THEN d.backup_file.data
    ELSE NoPositions

\* SignalHistoryManager._save_history run to its end without an error
save_history(d, data) == [d EXCEPT !.history_file = Full(data)]

\* SignalHistoryManager._load_history
load_history(d) ==
    IF d.history_file.kind = "full" THEN d.history_file.data ELSE NoHistory

\* PositionManager._save_positions after the call that changed ps
SavePositions(saved, ps) ==
    /\ disk' = IF saved THEN save_json(disk, ps) ELSE disk
    /\ UNCHANGED <<services, last_signals, price_cache, wsm>>
    /\ durable' = IF saved THEN [durable EXCEPT !.positions = ps] ELSE durable

Op(name, arg, feed, repeat) ==
    [op |-> name, arg |-> arg, feed |-> feed, repeat |-> repeat]

Init ==
    /\ positions = NoPositions
    /\ active_positions = {}
    /\ signal_history = NoHistory
    /\ now = 0
    /\ lastOp = Op("init", <<>>, NoFeed, FALSE)
    /\ lastReturn = [ok |-> FALSE, id |-> NoId, notify |-> FALSE]
    /\ lastUpdates = NoUpdates
    /\ pc = [t \in Threads |-> "idle"]
    /\ local = [t \in Threads |-> IdleLocal]
    /\ emitted = [k \in Keys |-> NoneEmitted]
    /\ accepted = [k \in Keys |-> [last |-> -1, too_soon |-> FALSE]]
    /\ disk = [positions_file |-> Missing, backup_file |-> Missing,
               history_file |-> Missing]
    /\ durable = [positions |-> NoPositions, history |-> NoHistory]
    /\ services = NoServices
    /\ last_signals = NoSignals
    /\ price_cache = NoCache
    /\ wsm = NewWebSocketManager

\* analyze_symbol: the position is handled first (line 131); with a signal,
\* line 185 then calls position_manager.has_active_position_any_tf, which
\* PositionManager does not define: AttributeError, caught at line 205, so
\* the history block (lines 190-200) is not reached
AnalyzeSymbol(symbol, timeframe, signal, current_price) ==
    LET h == handle_signal_position_fixed(positions, active_positions, symbol,
                                          timeframe, signal, current_price, now)
    IN  /\ positions' = h.positions
        /\ active_positions' = h.active_positions
        /\ lastOp' = Op("analyze_symbol", <<symbol, timeframe>>, NoFeed, FALSE)
        /\ lastReturn' = [ok |-> h.created,
                          id |-> IF h.created
                                 THEN PositionId(symbol, timeframe, signal) ELSE NoId,
                          notify |-> FALSE]
        /\ lastUpdates' = NoUpdates
        /\ SavePositions(h.created, h.positions)
        /\ emitted' = IF h.created
                      THEN [emitted EXCEPT ![PositionId(symbol, timeframe, signal)] =
                               NoneEmitted]
                      ELSE emitted
        /\ UNCHANGED <<signal_history, now, pc, local, accepted>>

\* analyze_rebound: history gate, record, clear opposite, then the position
AnalyzeRebound(symbol, timeframe, signal, current_price) ==
    /\ lastOp' = Op("analyze_rebound", <<symbol, timeframe, signal>>, NoFeed, FALSE)
    /\ lastUpdates' = NoUpdates
    /\ UNCHANGED <<now, pc, local>>
    /\ IF timeframe # "15m" \/ signal = "NONE"
          \/ ~should_notify(signal_history, symbol, timeframe, signal, now)
       THEN /\ lastReturn' = [ok |-> FALSE, id |-> NoId, notify |-> FALSE]
            /\ UNCHANGED <<positions, active_positions, signal_history,
                           emitted, accepted, disk, durable, services, last_signals, price_cache, wsm>>
       ELSE LET h1 == record_signal(signal_history, symbol, timeframe, signal,
                                    current_price, now)
                h2 == clear_opposite_signal(h1, symbol, timeframe, signal)
                h == handle_signal_position_fixed(positions, active_positions, symbol,
                                                  timeframe, signal, current_price, now)
            IN  /\ signal_history' = h2
                /\ positions' = h.positions
                /\ active_positions' = h.active_positions
                /\ accepted' = Accept(accepted, PositionId(symbol, timeframe, signal),
                                      timeframe, now)
                /\ emitted' = IF h.created
                              THEN [emitted EXCEPT
                                       ![PositionId(symbol, timeframe, signal)] =
                                           NoneEmitted]
                              ELSE emitted
                /\ lastReturn' = [ok |-> h.created,
                                  id |-> IF h.created
                                         THEN PositionId(symbol, timeframe, signal)
                                         ELSE NoId,
                                  notify |-> TRUE]
                /\ disk' = save_history(IF h.created
                                        THEN save_json(disk, h.positions) ELSE disk,
                                        h2)
                /\ UNCHANGED <<services, last_signals, price_cache, wsm>>
                /\ durable' = [positions |-> IF h.created THEN h.positions
                                             ELSE durable.positions,
                               history |-> h2]

\* update_positions, called by the monitor thread, the scheduler job or the
\* HTTP endpoints, with the prices get_current_prices_cached returned
UpdatePositions(current_prices) ==
    LET u == update_positions(positions, current_prices, now)
    IN  /\ positions' = u.positions
        /\ lastUpdates' = u.updates
        /\ lastOp' = Op("update_positions", <<>>, current_prices,
                        lastOp.op = "update_positions" /\ lastOp.feed = current_prices)
        /\ lastReturn' = [ok |-> TRUE, id |-> NoId, notify |-> FALSE]
        /\ emitted' = Emit(emitted, u.updates)
        /\ SavePositions(ActiveSnapshot(positions) # {}, u.positions)
        /\ UNCHANGED <<active_positions, signal_history, now, pc, local, accepted>>

\* POST /api/positions/close
ClosePosition(position_id, reason) ==
    LET c == close_position(positions, position_id, reason, now)
    IN  /\ positions' = c.positions
        /\ lastOp' = Op("close_position", position_id, NoFeed, FALSE)
        /\ lastReturn' = [ok |-> c.success, id |-> NoId, notify |-> FALSE]
        /\ lastUpdates' = NoUpdates
        /\ SavePositions(c.success, c.positions)
        /\ UNCHANGED <<active_positions, signal_history, now>>
        /\ UNCHANGED callerVars

ForceClosePosition(symbol, timeframe, reason) ==
    LET c == force_close_position(positions, active_positions, symbol, timeframe,
                                  reason, now)
    IN  /\ positions' = c.positions
        /\ active_positions' = c.active_positions
        /\ lastOp' = Op("force_close_position", <<symbol, timeframe>>, NoFeed, FALSE)
        /\ lastReturn' = [ok |-> c.success, id |-> NoId, notify |-> FALSE]
        /\ lastUpdates' = NoUpdates
        /\ SavePositions(c.success, c.positions)
        /\ UNCHANGED <<signal_history, now>>
        /\ UNCHANGED callerVars

\* time passes
Tick ==
    /\ now < MaxNow
    /\ now' = now + 1
    /\ UNCHANGED <<positions, active_positions, signal_history,
                   lastOp, lastReturn, lastUpdates>>
    /\ UNCHANGED callerVars
    /\ UNCHANGED storeVars

SeqKeys == Symbols \X SeqTimeframes \X Directions

Next ==
    \/ \E s \in Symbols, tf \in SeqTimeframes, sig \in Signals, p \in EntryPrices :
          AnalyzeSymbol(s, tf, sig, p)
    \/ \E f \in Feeds : UpdatePositions(f)
    \/ \E k \in SeqKeys, r \in Reasons : ClosePosition(k, r)
    \/ \E s \in Symbols, tf \in SeqTimeframes, r \in Reasons : ForceClosePosition(s, tf, r)
    \/ Tick

Spec == Init /\ [][Next]_vars

\* the same operations on an instrument priced at one quantum
TieFeeds == UNION {[S -> TieFeedPrices] : S \in SUBSET Symbols}

NextTie ==
    \/ \E s \in Symbols, tf \in SeqTimeframes, sig \in Signals, p \in TieEntryPrices :
          AnalyzeSymbol(s, tf, sig, p)
    \/ \E f \in TieFeeds : UpdatePositions(f)
    \/ \E k \in SeqKeys, r \in Reasons : ClosePosition(k, r)
    \/ \E s \in Symbols, tf \in SeqTimeframes, r \in Reasons : ForceClosePosition(s, tf, r)
    \/ Tick

SpecTie == Init /\ [][NextTie]_vars

(***************************************************************************)
(* Claims checked under Spec.                                              *)
(***************************************************************************)
\* a step that is a call of update_positions (Tick leaves lastOp alone)
IsUpdateStep == lastOp'.op = "update_positions" /\ now' = now
IsCloseStep(k) == lastOp'.op = "close_position" /\ lastOp'.arg = k /\ now' = now

StatusOf(pos) == pos.status
Flags(pos) ==
    IF pos = NoPos THEN <<>>
    ELSE <<pos.tp_hit, pos.sl_hit, pos.status, pos.close_reason>>

\* C3: a position's status changes only from ACTIVE to CLOSED and CLOSED is
\* terminal: no operation takes the position stored under a key from CLOSED
\* back to ACTIVE.
C3_ClosedIsTerminal ==
    [][\A k \in Keys :
          /\ positions[k].status = "CLOSED" => positions'[k].status = "CLOSED"
          /\ positions[k].status = "ACTIVE" =>
                positions'[k].status \in {"ACTIVE", "CLOSED"}]_vars

\* C4: close(key, reason) returns true exactly when it moved an ACTIVE
\* position to CLOSED, and otherwise (key absent or already CLOSED) returns
\* false and leaves the stored position, its close reason and close time
\* included, as it was.
C4_CloseOnlyActive ==
    [][\A k \in Keys : IsCloseStep(k) =>
          /\ lastReturn'.ok = IsActive(positions[k])
          /\ IsActive(positions[k]) => positions'[k].status = "CLOSED"
          /\ ~IsActive(positions[k]) => positions'[k] = positions[k]]_vars

\* the stop, or some target, of position pos newly triggers at price p
StopNewly(pos, p) == ~pos.sl_hit /\ SlReached(pos.direction, p, pos.sl_level)
TargetNewly(pos, p) ==
    \E i \in 1..3 : ~pos.tp_hit[i] /\ TpReached(pos.direction, p, pos.tp_levels[i])

\* C6: when in one update_positions cycle both the stop and a target of an
\* ACTIVE position newly trigger, the position ends the cycle CLOSED with
\* reason SL_HIT, never ALL_TP_HIT, whatever its direction.
C6_StopWinsTie ==
    [][\A k \in Keys :
          (/\ IsUpdateStep
           /\ IsActive(positions[k])
           /\ k[1] \in DOMAIN lastOp'.feed
           /\ StopNewly(positions[k], lastOp'.feed[k[1]])
           /\ TargetNewly(positions[k], lastOp'.feed[k[1]]))
          => /\ positions'[k].status = "CLOSED"
             /\ positions'[k].close_reason = "SL_HIT"]_vars

\* a cycle in which the stop and all three targets of a position triggered
C6_Witness ==
    /\ lastOp.op = "update_positions"
    /\ \E k \in Keys :
          /\ {"TP1_hit", "TP2_hit", "TP3_hit", "sl_hit"} \subseteq lastUpdates[k]
          /\ positions[k].status = "CLOSED"
          /\ positions[k].close_reason = "SL_HIT"

BeyondT3(pos, p) ==
    IF pos.direction = "LONG" THEN p > pos.tp_levels[3] ELSE p < pos.tp_levels[3]

\* C7: for an ACTIVE position with no target hit, one update_positions cycle
\* whose price is beyond TP3 in the direction of profit sets all three
\* tp_hit flags, returns TP1_hit, TP2_hit and TP3_hit for it, and closes it
\* with ALL_TP_HIT.
C7_GapThrough ==
    [][\A k \in Keys :
          (/\ IsUpdateStep
           /\ IsActive(positions[k])
           /\ \A i \in 1..3 : ~positions[k].tp_hit[i]
           /\ k[1] \in DOMAIN lastOp'.feed
           /\ BeyondT3(positions[k], lastOp'.feed[k[1]]))
          => /\ \A i \in 1..3 : positions'[k].tp_hit[i]
             /\ {"TP1_hit", "TP2_hit", "TP3_hit"} \subseteq lastUpdates'[k]
             /\ positions'[k].status = "CLOSED"
             /\ positions'[k].close_reason = "ALL_TP_HIT"]_vars

\* a position opened at 1000 that one cycle took through all three targets
C7_Witness ==
    /\ lastOp.op = "update_positions"
    /\ \E k \in Keys :
          /\ {"TP1_hit", "TP2_hit", "TP3_hit"} \subseteq lastUpdates[k]
          /\ positions[k].entry_price = 1000
          /\ positions[k].close_reason = "ALL_TP_HIT"

\* C8: an update_positions call that directly follows another one with the
\* same prices returns no event and changes no tp_hit, sl_hit, status or
\* close_reason.
C8_RepriceIdempotent ==
    [][(IsUpdateStep /\ lastOp'.repeat) =>
          /\ lastUpdates' = NoUpdates
          /\ \A k \in Keys : Flags(positions'[k]) = Flags(positions[k])]_vars

\* the second of two equal cycles, over a position the first one advanced
C8_Witness ==
    /\ lastOp.op = "update_positions"
    /\ lastOp.repeat
    /\ \E k \in Keys :
          /\ IsActive(positions[k])
          /\ positions[k].tp_hit[1]
          /\ k[1] \in DOMAIN lastOp.feed

(***************************************************************************)
(* Concurrent callers of _handle_signal_position_fixed.  Nothing in the    *)
(* code serialises the triggers (no lock guards positions or               *)
(* active_positions), and create_position writes the positions file        *)
(* between the checks and the tracking, so a caller can be overtaken       *)
(* between the steps below.                                                *)
(***************************************************************************)
\* entry prices and feeds of the concurrent specifications
ConcEntryPrices == {1000}
ConcFeeds == UNION {[S -> {972, 1080}] : S \in SUBSET Symbols}

seqVars == <<lastOp, lastReturn, lastUpdates>>

SamePair(a, b) == a.symbol = b.symbol /\ a.timeframe = b.timeframe

\* lines 250-284: the duplicate checks, read in one go
HandleCheck(t, symbol, timeframe, signal, current_price) ==
    /\ pc[t] = "idle"
    /\ IF \/ has_active_position_strict(positions, active_positions, symbol, timeframe)
          \/ signal = "NONE"
          \/ PositionId(symbol, timeframe, signal) \in active_positions
          \/ get_position_status(positions, symbol, timeframe) # {}
          \/ \E d \in Directions : IsActive(positions[PositionId(symbol, timeframe, d)])
       THEN /\ local' = [local EXCEPT ![t] = IdleLocal]
            /\ UNCHANGED pc
       ELSE /\ pc' = [pc EXCEPT ![t] = "checked"]
            /\ local' = [local EXCEPT ![t] =
                            [symbol |-> symbol, timeframe |-> timeframe,
                             signal |-> signal, current_price |-> current_price,
                             created |-> FALSE]]
    /\ UNCHANGED <<positions, active_positions, signal_history, now, seqVars, storeVars,
                   emitted, accepted>>

\* line 296: position_manager.create_position(signal_data)
HandleCreate(t) ==
    /\ pc[t] = "checked"
    /\ LET l == local[t]
           c == create_position(positions, l.symbol, l.timeframe, l.signal,
                                l.current_price, now)
       IN  /\ positions' = c.positions
           /\ IF c.id # NoId
              THEN /\ pc' = [pc EXCEPT ![t] = "created"]
                   /\ local' = [local EXCEPT ![t].created = TRUE]
                   /\ emitted' = [emitted EXCEPT ![c.id] = NoneEmitted]
              ELSE /\ pc' = [pc EXCEPT ![t] = "idle"]
                   /\ local' = [local EXCEPT ![t] = IdleLocal]
                   /\ UNCHANGED emitted
    /\ UNCHANGED <<active_positions, signal_history, now, seqVars, accepted>>
    /\ SavePositions(pc'[t] = "created", positions')

\* lines 298-304: self.active_positions.add(position_key); return True
HandleTrack(t) ==
    /\ pc[t] = "created"
    /\ active_positions' = active_positions \cup
          {PositionId(local[t].symbol, local[t].timeframe, local[t].signal)}
    /\ pc' = [pc EXCEPT ![t] = "idle"]
    /\ local' = [local EXCEPT ![t] = [created |-> TRUE]]
    /\ UNCHANGED <<positions, signal_history, now, seqVars, storeVars, emitted, accepted>>

NextCreate ==
    \/ \E t \in Threads, s \in Symbols, tf \in SeqTimeframes, sig \in Signals,
          p \in ConcEntryPrices : HandleCheck(t, s, tf, sig, p)
    \/ \E t \in Threads : HandleCreate(t)
    \/ \E t \in Threads : HandleTrack(t)
    \/ \E f \in ConcFeeds : UpdatePositions(f)
    \/ \E k \in SeqKeys, r \in Reasons : ClosePosition(k, r)

SpecCreate == Init /\ [][NextCreate]_vars

\* C1: for every (symbol, timeframe) at most one stored position has status
\* ACTIVE, counting LONG and SHORT together.
C1_OneActivePerPair ==
    \A s \in Symbols, tf \in SeqTimeframes :
        Cardinality({d \in Directions : IsActive(positions[PositionId(s, tf, d)])}) <= 1

\* C2: of the callers that evaluate a signal for the same (symbol, timeframe)
\* at the same time, at most one opens a position.
C2_OneCallerOpens ==
    \A t1, t2 \in Threads :
        (t1 # t2 /\ pc[t1] = "created" /\ pc[t2] = "created")
        => ~SamePair(local[t1], local[t2])

\* C5: a create call returns a new position id exactly when no position of
\* its (symbol, timeframe) is ACTIVE, in either direction: never while a
\* prior one is ACTIVE, and again once that one is CLOSED.
C5_CreateReturnsIdIffNoneActive ==
    [][\A t \in Threads :
          (pc[t] = "checked" /\ pc'[t] # "checked")
          => ((pc'[t] = "created") <=>
                 get_position_status(positions, local[t].symbol,
                                     local[t].timeframe) = {})]_vars

(***************************************************************************)
(* Concurrent callers of update_positions: the monitor thread, the         *)
(* scheduler job and the HTTP endpoints call it with no lock.  The         *)
(* snapshot of lines 102-103 holds the stored dictionaries themselves, so  *)
(* every read and write below is on the shared position.                   *)
(***************************************************************************)
AllIdle == \A t \in Threads : pc[t] = "idle"

\* a position is opened while no update_positions call is under way
OpenBetweenUpdates(symbol, timeframe, signal, current_price) ==
    /\ AllIdle
    /\ AnalyzeSymbol(symbol, timeframe, signal, current_price)

\* lines 102-106
UpdSnapshot(t) ==
    /\ pc[t] = "idle"
    /\ IF ActiveSnapshot(positions) = {}
       THEN /\ local' = [local EXCEPT ![t] = IdleLocal]
            /\ UNCHANGED pc
       ELSE /\ pc' = [pc EXCEPT ![t] = "fetch"]
            /\ local' = [local EXCEPT ![t] =
                            [todo |-> ActiveSnapshot(positions),
                             current_prices |-> NoFeed,
                             position_id |-> NoId, i |-> 0, found |-> {},
                             updates |-> NoUpdates]]
    /\ UNCHANGED <<positions, active_positions, signal_history, now, seqVars, storeVars,
                   emitted, accepted>>

\* lines 109-110
UpdFetch(t, current_prices) ==
    /\ pc[t] = "fetch"
    /\ pc' = [pc EXCEPT ![t] = "loop"]
    /\ local' = [local EXCEPT ![t].current_prices = current_prices]
    /\ UNCHANGED <<positions, active_positions, signal_history, now, seqVars, storeVars,
                   emitted, accepted>>

\* lines 112-133: the next position of the snapshot gets the new price
UpdPick(t) ==
    /\ pc[t] = "loop"
    /\ \E k \in local[t].todo :
          IF k[1] \notin DOMAIN local[t].current_prices
          THEN /\ local' = [local EXCEPT ![t].todo = @ \ {k}]
               /\ UNCHANGED <<pc, positions>>
          ELSE /\ positions' = [positions EXCEPT ![k] =
                                   Reprice(@, local[t].current_prices[k[1]], now)]
               /\ local' = [local EXCEPT ![t].todo = @ \ {k},
                                         ![t].position_id = k,
                                         ![t].i = 1,
                                         ![t].found = {}]
               /\ pc' = [pc EXCEPT ![t] = "tp_test"]
    /\ UNCHANGED <<active_positions, signal_history, now, seqVars, storeVars, emitted, accepted>>

\* lines 160-169, for the i-th target
UpdTpTest(t) ==
    /\ pc[t] = "tp_test"
    /\ LET l == local[t]
       IN  IF TpTest(positions[l.position_id], l.i,
                     l.current_prices[l.position_id[1]])
           THEN /\ pc' = [pc EXCEPT ![t] = "tp_set"]
                /\ UNCHANGED local
           ELSE IF l.i < 3
           THEN /\ local' = [local EXCEPT ![t].i = @ + 1]
                /\ UNCHANGED pc
           ELSE /\ pc' = [pc EXCEPT ![t] = "sl_test"]
                /\ UNCHANGED local
    /\ UNCHANGED <<positions, active_positions, signal_history, now, seqVars, storeVars,
                   emitted, accepted>>

\* lines 171-187, for the i-th target
UpdTpSet(t) ==
    /\ pc[t] = "tp_set"
    /\ LET l == local[t]
           st == TpSet([position |-> positions[l.position_id], updates |-> l.found],
                       l.i, now)
       IN  /\ positions' = [positions EXCEPT ![l.position_id] = st.position]
           /\ IF l.i < 3
              THEN /\ local' = [local EXCEPT ![t].found = st.updates, ![t].i = @ + 1]
                   /\ pc' = [pc EXCEPT ![t] = "tp_test"]
              ELSE /\ local' = [local EXCEPT ![t].found = st.updates]
                   /\ pc' = [pc EXCEPT ![t] = "sl_test"]
    /\ UNCHANGED <<active_positions, signal_history, now, seqVars, storeVars, emitted, accepted>>

\* lines 137-138: updates[position_id] = tp_sl_update
Found(l, found) ==
    [l EXCEPT !.updates = [@ EXCEPT ![l.position_id] = found], !.found = {}]

\* lines 190-198, and lines 137-138 when the stop is not hit
UpdSlTest(t) ==
    /\ pc[t] = "sl_test"
    /\ LET l == local[t]
       IN  IF SlTest(positions[l.position_id], l.current_prices[l.position_id[1]])
           THEN /\ pc' = [pc EXCEPT ![t] = "sl_set"]
                /\ UNCHANGED local
           ELSE /\ pc' = [pc EXCEPT ![t] = "loop"]
                /\ local' = [local EXCEPT ![t] = Found(l, l.found)]
    /\ UNCHANGED <<positions, active_positions, signal_history, now, seqVars, storeVars,
                   emitted, accepted>>

\* lines 200-213, then lines 137-138
UpdSlSet(t) ==
    /\ pc[t] = "sl_set"
    /\ LET l == local[t]
           st == SlSet([position |-> positions[l.position_id], updates |-> l.found],
                       now)
       IN  /\ positions' = [positions EXCEPT ![l.position_id] = st.position]
           /\ local' = [local EXCEPT ![t] = Found(l, st.updates)]
    /\ pc' = [pc EXCEPT ![t] = "loop"]
    /\ UNCHANGED <<active_positions, signal_history, now, seqVars, storeVars, emitted, accepted>>

\* lines 140-145: return updates
UpdReturn(t) ==
    /\ pc[t] = "loop"
    /\ local[t].todo = {}
    /\ emitted' = Emit(emitted, local[t].updates)
    /\ pc' = [pc EXCEPT ![t] = "idle"]
    /\ local' = [local EXCEPT ![t] = IdleLocal]
    /\ UNCHANGED <<positions, active_positions, signal_history, now, seqVars, accepted>>
    /\ SavePositions(TRUE, positions)

NextReprice ==
    \/ \E s \in Symbols, tf \in SeqTimeframes, sig \in Directions,
          p \in ConcEntryPrices : OpenBetweenUpdates(s, tf, sig, p)
    \/ \E t \in Threads : UpdSnapshot(t)
    \/ \E t \in Threads, f \in ConcFeeds : UpdFetch(t, f)
    \/ \E t \in Threads : UpdPick(t)
    \/ \E t \in Threads : UpdTpTest(t)
    \/ \E t \in Threads : UpdTpSet(t)
    \/ \E t \in Threads : UpdSlTest(t)
    \/ \E t \in Threads : UpdSlSet(t)
    \/ \E t \in Threads : UpdReturn(t)

SpecReprice == Init /\ [][NextReprice]_vars

\* C9: every crossing of a target or of the stop is returned as a newly
\* crossed event by exactly one reprice call, never by a second one.
C9_CrossingReturnedOnce ==
    \A k \in Keys, e \in Crossings : emitted[k][e] <= 1

(***************************************************************************)
(* Concurrent callers of analyze_rebound: the history gate, the record and *)
(* the clearing of the opposite record are three calls with no lock around *)
(* them, and record_signal writes the history file.                        *)
(***************************************************************************)
\* lines 701-706: should_notify
NotifyCheck(t, symbol, signal, current_price) ==
    /\ pc[t] = "idle"
    /\ IF signal = "NONE" \/ ~should_notify(signal_history, symbol, "15m", signal, now)
       THEN /\ local' = [local EXCEPT ![t] = IdleLocal]
            /\ UNCHANGED <<pc, accepted>>
       ELSE /\ pc' = [pc EXCEPT ![t] = "record"]
            /\ local' = [local EXCEPT ![t] =
                            [symbol |-> symbol, timeframe |-> "15m",
                             signal |-> signal, current_price |-> current_price,
                             created |-> FALSE]]
            /\ accepted' = Accept(accepted, PositionId(symbol, "15m", signal),
                                  "15m", now)
    /\ UNCHANGED <<positions, active_positions, signal_history, now, seqVars, storeVars, emitted>>

\* line 708: record_signal
NotifyRecord(t) ==
    /\ pc[t] = "record"
    /\ signal_history' = record_signal(signal_history, local[t].symbol,
                                       local[t].timeframe, local[t].signal,
                                       local[t].current_price, now)
    /\ pc' = [pc EXCEPT ![t] = "clear"]
    /\ UNCHANGED <<positions, active_positions, now, seqVars, local, emitted, accepted>>
    /\ disk' = save_history(disk, signal_history')
    /\ UNCHANGED <<services, last_signals, price_cache, wsm>>
    /\ durable' = [durable EXCEPT !.history = signal_history']

\* line 709: clear_opposite_signal
NotifyClear(t) ==
    /\ pc[t] = "clear"
    /\ signal_history' = clear_opposite_signal(signal_history, local[t].symbol,
                                               local[t].timeframe, local[t].signal)
    /\ pc' = [pc EXCEPT ![t] = "position"]
    /\ UNCHANGED <<positions, active_positions, now, seqVars, local, emitted, accepted>>
    /\ disk' = IF signal_history' # signal_history
               THEN save_history(disk, signal_history') ELSE disk
    /\ UNCHANGED <<services, last_signals, price_cache, wsm>>
    /\ durable' = IF signal_history' # signal_history
                  THEN [durable EXCEPT !.history = signal_history'] ELSE durable

\* lines 712-751: the position is handled and the result returned
NotifyPosition(t) ==
    /\ pc[t] = "position"
    /\ LET l == local[t]
           h == handle_signal_position_fixed(positions, active_positions, l.symbol,
                                             l.timeframe, l.signal, l.current_price,
                                             now)
       IN  /\ positions' = h.positions
           /\ active_positions' = h.active_positions
           /\ emitted' = IF h.created
                         THEN [emitted EXCEPT
                                  ![PositionId(l.symbol, l.timeframe, l.signal)] =
                                      NoneEmitted]
                         ELSE emitted
           /\ local' = [local EXCEPT ![t] = [created |-> h.created]]
    /\ pc' = [pc EXCEPT ![t] = "idle"]
    /\ UNCHANGED <<signal_history, now, seqVars, accepted>>
    /\ SavePositions(local'[t].created, positions')

NextNotify ==
    \/ \E t \in Threads, s \in Symbols, sig \in Signals, p \in ConcEntryPrices :
          NotifyCheck(t, s, sig, p)
    \/ \E t \in Threads : NotifyRecord(t)
    \/ \E t \in Threads : NotifyClear(t)
    \/ \E t \in Threads : NotifyPosition(t)
    \/ Tick

SpecNotify == Init /\ [][NextNotify]_vars

\* C10: two notifications for the same symbol_timeframe_direction key are
\* never accepted less than the cooldown of the timeframe apart.
C10_CooldownBetweenAccepted ==
    \A k \in Keys : ~accepted[k].too_soon

(***************************************************************************)
(* The history gate with its file.  Every caller of record_signal          *)
(* (analyze_symbol lines 190-200, analyze_rebound lines 701-709,           *)
(* scan_multiple_symbols) calls should_notify first and                    *)
(* clear_opposite_signal next; _save_history opens the file for writing    *)
(* (which empties it) and then dumps the records.  The process may stop    *)
(* and start again at any point.                                           *)
(***************************************************************************)
Main == "caller1"

\* time passes between two calls
Elapse(t2) ==
    /\ AllIdle
    /\ t2 > now
    /\ now' = t2
    /\ UNCHANGED <<positions, active_positions, signal_history, seqVars,
                   pc, local, emitted, accepted, storeVars>>

\* should_notify returned True; record_signal up to its _save_history
GuardRecord(t, symbol, timeframe, signal_type, current_price) ==
    /\ pc[t] = "idle"
    /\ should_notify(signal_history, symbol, timeframe, signal_type, now)
    /\ signal_history' = record_signal(signal_history, symbol, timeframe,
                                       signal_type, current_price, now)
    /\ accepted' = IF timeframe \in SeqTimeframes
                   THEN Accept(accepted, PositionId(symbol, timeframe, signal_type),
                               timeframe, now)
                   ELSE accepted
    /\ pc' = [pc EXCEPT ![t] = "hist_open"]
    /\ local' = [local EXCEPT ![t] =
                    [symbol |-> symbol, timeframe |-> timeframe,
                     signal |-> signal_type, after |-> "clear"]]
    /\ UNCHANGED <<positions, active_positions, now, seqVars, emitted, storeVars>>

\* _save_history, line 101: open(self.history_file, "w")
HistOpen(t) ==
    /\ pc[t] = "hist_open"
    /\ disk' = [disk EXCEPT !.history_file = Partial]
    /\ pc' = [pc EXCEPT ![t] = "hist_dump"]
    /\ UNCHANGED <<positions, active_positions, signal_history, now, seqVars,
                   local, emitted, accepted, durable, services, last_signals, price_cache, wsm>>

\* _save_history, line 103: json.dump(self.signal_history, f), file closed
HistDump(t) ==
    /\ pc[t] = "hist_dump"
    /\ disk' = save_history(disk, signal_history)
    /\ UNCHANGED <<services, last_signals, price_cache, wsm>>
    /\ durable' = [durable EXCEPT !.history = signal_history]
    /\ pc' = [pc EXCEPT ![t] = local[t].after]
    /\ UNCHANGED <<positions, active_positions, signal_history, now, seqVars,
                   local, emitted, accepted>>

\* clear_opposite_signal up to its _save_history
GuardClear(t) ==
    /\ pc[t] = "clear"
    /\ signal_history' = clear_opposite_signal(signal_history, local[t].symbol,
                                               local[t].timeframe, local[t].signal)
    /\ IF signal_history' # signal_history
       THEN /\ pc' = [pc EXCEPT ![t] = "hist_open"]
            /\ local' = [local EXCEPT ![t].after = "idle"]
       ELSE /\ pc' = [pc EXCEPT ![t] = "idle"]
            /\ local' = [local EXCEPT ![t] = IdleLocal]
    /\ UNCHANGED <<positions, active_positions, now, seqVars, emitted, accepted,
                   storeVars>>

\* the process stops and is started again: PositionManager.__init__ and
\* SignalHistoryManager.__init__ load the files, SignalDetector.__init__
\* starts with an empty active_positions
Restart ==
    /\ positions' = load_json(disk)
    /\ signal_history' = load_history(disk)
    /\ active_positions' = {}
    /\ pc' = [t \in Threads |-> "idle"]
    /\ local' = [t \in Threads |-> IdleLocal]
    /\ lastOp' = Op("init", <<>>, NoFeed, FALSE)
    /\ lastReturn' = [ok |-> FALSE, id |-> NoId, notify |-> FALSE]
    /\ lastUpdates' = NoUpdates
    /\ UNCHANGED <<now, emitted, accepted, storeVars>>

NextGuard ==
    \/ \E s \in Symbols, tf \in Timeframes, d \in Directions, p \in ConcEntryPrices :
          GuardRecord(Main, s, tf, d, p)
    \/ HistOpen(Main)
    \/ HistDump(Main)
    \/ GuardClear(Main)
    \/ \E t2 \in Clock : Elapse(t2)

SpecGuard == Init /\ [][NextGuard]_vars

\* the same calls on the traded timeframe, with stops of the process
NextHistStore ==
    \/ \E s \in Symbols, tf \in SeqTimeframes, d \in Directions, p \in ConcEntryPrices :
          GuardRecord(Main, s, tf, d, p)
    \/ HistOpen(Main)
    \/ HistDump(Main)
    \/ GuardClear(Main)
    \/ Restart
    \/ \E t2 \in Clock : Elapse(t2)

SpecHistStore == Init /\ [][NextHistStore]_vars

\* C11: should_notify is true for a key without a record, false right after
\* record_signal for the key, and true again exactly when the minutes since
\* the recorded date reach the cooldown of the timeframe: 60 for 15m, 1440
\* for 1d, 60 for any other timeframe.
C11_Cooldown ==
    \A k \in HistKeys :
        LET rec == signal_history[k]
            notify == should_notify(signal_history, k[1], k[2], k[3], now)
            cooldown == IF k[2] = "1d" THEN 1440 ELSE 60
        IN  /\ rec = NoHist => notify
            /\ (rec # NoHist /\ rec.date = now) => ~notify
            /\ rec # NoHist => (notify <=> now - rec.date >= cooldown)

\* one key recorded this minute, a 4h key recorded exactly an hour ago and a
\* 1d key recorded less than a day ago
C11_Witness ==
    \E k1, k2, k3 \in HistKeys :
        /\ signal_history[k1] # NoHist /\ signal_history[k1].date = now
        /\ k2[2] = "4h" /\ signal_history[k2] # NoHist
        /\ now - signal_history[k2].date = 60
        /\ should_notify(signal_history, k2[1], k2[2], k2[3], now)
        /\ k3[2] = "1d" /\ signal_history[k3] # NoHist
        /\ now - signal_history[k3].date = 60
        /\ ~should_notify(signal_history, k3[1], k3[2], k3[3], now)

(***************************************************************************)
(* The two evaluations, the reprice cycle and restarts of the process,     *)
(* each run to completion, over the instants of ShortClock.                *)
(***************************************************************************)
NextHistory ==
    \/ \E s \in Symbols, tf \in SeqTimeframes, sig \in Signals, p \in ConcEntryPrices :
          AnalyzeRebound(s, tf, sig, p)
    \/ \E s \in Symbols, tf \in SeqTimeframes, sig \in Signals, p \in ConcEntryPrices :
          AnalyzeSymbol(s, tf, sig, p)
    \/ \E f \in ConcFeeds : UpdatePositions(f)
    \/ Restart
    \/ \E t2 \in ShortClock : Elapse(t2)

SpecHistory == Init /\ [][NextHistory]_vars

\* an evaluation (analyze_symbol or analyze_rebound) that found the signal sig
Evaluates(symbol, timeframe, sig, current_price) ==
    \/ AnalyzeSymbol(symbol, timeframe, sig, current_price)
    \/ AnalyzeRebound(symbol, timeframe, sig, current_price)

\* C12: an evaluation that produces a direction for which should_notify is
\* false stops silently: it creates or changes no position, writes and
\* clears no history record and hands no notification on.
C12_SilentStop ==
    [][\A s \in Symbols, tf \in SeqTimeframes, sig \in Directions,
          p \in ConcEntryPrices :
          (/\ Evaluates(s, tf, sig, p)
           /\ ~should_notify(signal_history, s, tf, sig, now))
          => /\ positions' = positions
             /\ signal_history' = signal_history
             /\ ~lastReturn'.notify]_vars

\* C13: an evaluation that produces a direction for which should_notify is
\* true records the signal and clears the opposite record, whether or not
\* a position was opened.
C13_RecordedWhateverCreate ==
    [][\A s \in Symbols, tf \in SeqTimeframes, sig \in Directions,
          p \in ConcEntryPrices :
          (/\ Evaluates(s, tf, sig, p)
           /\ should_notify(signal_history, s, tf, sig, now))
          => /\ signal_history'[PositionId(s, tf, sig)] = [price |-> p, date |-> now]
             /\ signal_history'[PositionId(s, tf, Opposite(sig))] = NoHist]_vars

(***************************************************************************)
(* The position store with its file.  A call changes self.positions and    *)
(* then runs _save_positions -> JSONManager.save_json, which renames the   *)
(* file to .backup (line 27), opens it for writing (line 29) and dumps the *)
(* collection (line 30); an exception in between is logged and save_json   *)
(* returns False.  The process may stop and start again at any point.      *)
(***************************************************************************)
\* _handle_signal_position_fixed up to the _save_positions of create_position
StoreCreate(t, symbol, timeframe, signal, current_price) ==
    /\ pc[t] = "idle"
    /\ LET h == handle_signal_position_fixed(positions, active_positions, symbol,
                                             timeframe, signal, current_price, now)
       IN  /\ h.created
           /\ positions' = h.positions
    /\ pc' = [pc EXCEPT ![t] = "save_rename"]
    /\ local' = [local EXCEPT ![t] =
                    [symbol |-> symbol, timeframe |-> timeframe, signal |-> signal,
                     after |-> "track"]]
    /\ UNCHANGED <<active_positions, signal_history, now, seqVars, emitted, accepted,
                   storeVars>>

\* signal_detector.py lines 298-304, after create_position returned the id
StoreTrack(t) ==
    /\ pc[t] = "track"
    /\ active_positions' = active_positions \cup
          {PositionId(local[t].symbol, local[t].timeframe, local[t].signal)}
    /\ pc' = [pc EXCEPT ![t] = "idle"]
    /\ local' = [local EXCEPT ![t] = [created |-> TRUE]]
    /\ UNCHANGED <<positions, signal_history, now, seqVars, emitted, accepted,
                   storeVars>>

\* close_position up to its _save_positions
StoreClose(t, position_id, reason) ==
    /\ pc[t] = "idle"
    /\ LET c == close_position(positions, position_id, reason, now)
       IN  /\ c.success
           /\ positions' = c.positions
    /\ pc' = [pc EXCEPT ![t] = "save_rename"]
    /\ local' = [local EXCEPT ![t] = [after |-> "idle"]]
    /\ UNCHANGED <<active_positions, signal_history, now, seqVars, emitted, accepted,
                   storeVars>>

\* update_positions up to its _save_positions (line 140)
StoreUpdate(t, current_prices) ==
    /\ pc[t] = "idle"
    /\ ActiveSnapshot(positions) # {}
    /\ LET u == update_positions(positions, current_prices, now)
       IN  positions' = u.positions
    /\ pc' = [pc EXCEPT ![t] = "save_rename"]
    /\ local' = [local EXCEPT ![t] = [after |-> "idle"]]
    /\ UNCHANGED <<active_positions, signal_history, now, seqVars, emitted, accepted,
                   storeVars>>

\* save_json lines 25-27: os.rename(file_path, backup_path) if the file exists
SaveRename(t) ==
    /\ pc[t] = "save_rename"
    /\ disk' = IF disk.positions_file # Missing
               THEN [disk EXCEPT !.backup_file = disk.positions_file,
                                 !.positions_file = Missing]
               ELSE disk
    /\ pc' = [pc EXCEPT ![t] = "save_open"]
    /\ UNCHANGED <<positions, active_positions, signal_history, now, seqVars,
                   local, emitted, accepted, durable, services, last_signals, price_cache, wsm>>

\* save_json line 29: open(file_path, 'w')
SaveOpen(t) ==
    /\ pc[t] = "save_open"
    /\ disk' = [disk EXCEPT !.positions_file = Partial]
    /\ pc' = [pc EXCEPT ![t] = "save_dump"]
    /\ UNCHANGED <<positions, active_positions, signal_history, now, seqVars,
                   local, emitted, accepted, durable, services, last_signals, price_cache, wsm>>

\* save_json lines 30-32: json.dump(data, f), file closed, return True
SaveDump(t) ==
    /\ pc[t] = "save_dump"
    /\ disk' = [disk EXCEPT !.positions_file = Full(positions)]
    /\ UNCHANGED <<services, last_signals, price_cache, wsm>>
    /\ durable' = [durable EXCEPT !.positions = positions]
    /\ pc' = [pc EXCEPT ![t] = local[t].after]
    /\ UNCHANGED <<positions, active_positions, signal_history, now, seqVars,
                   local, emitted, accepted>>

\* save_json lines 33-35: open or json.dump raised (disk full, no
\* permission, too many open files); the error is logged, False returned
SaveFail(t) ==
    /\ pc[t] \in {"save_open", "save_dump"}
    /\ pc' = [pc EXCEPT ![t] = local[t].after]
    /\ UNCHANGED <<positions, active_positions, signal_history, now, seqVars,
                   local, emitted, accepted, storeVars>>

StoreDirections == {"LONG"}

StoreKeys == Symbols \X SeqTimeframes \X StoreDirections

StoreFeeds == [Symbols -> {972, 1028, 1080}]

NextStore ==
    \/ \E s \in Symbols, tf \in SeqTimeframes, sig \in StoreDirections,
          p \in ConcEntryPrices : StoreCreate(Main, s, tf, sig, p)
    \/ StoreTrack(Main)
    \/ \E k \in StoreKeys, r \in Reasons : StoreClose(Main, k, r)
    \/ \E f \in StoreFeeds : StoreUpdate(Main, f)
    \/ SaveRename(Main)
    \/ SaveOpen(Main)
    \/ SaveDump(Main)
    \/ SaveFail(Main)
    \/ Restart

SpecStore == Init /\ [][NextStore]_vars

Saving(t) == pc[t] \in {"save_rename", "save_open", "save_dump"}

\* C14: at every point of a save of the positions, what a load would return
\* is the complete previous snapshot or the complete new one.
C14_SaveCrashSafe ==
    Saving(Main) => load_json(disk) \in {durable.positions, positions}

\* C15: a save that fails leaves the positions in memory as they were and
\* the previous durable snapshot loadable.
C15_FailedSaveKeepsPrevious ==
    [][SaveFail(Main) => /\ positions' = positions
                         /\ load_json(disk') = durable.positions]_vars

\* C16: at every point of a save of the history, what a reload would return
\* is the complete set of records before the save or the complete set after.
C16_HistorySaveCrashSafe ==
    pc[Main] \in {"hist_open", "hist_dump"}
        => load_history(disk) \in {durable.history, signal_history}

(***************************************************************************)
(* Further claims checked under Spec.                                      *)
(***************************************************************************)
IsRepriceOrClose ==
    /\ lastOp'.op \in {"update_positions", "close_position", "force_close_position"}
    /\ now' = now

C18_ClosedRecordKept ==
    [][\A k \in Keys :
          positions[k].status = "CLOSED"
             => /\ positions'[k].status = "CLOSED"
                /\ positions'[k].close_reason = positions[k].close_reason
                /\ positions'[k].close_time = positions[k].close_time
                /\ positions'[k].tp_hit = positions[k].tp_hit
                /\ positions'[k].sl_hit = positions[k].sl_hit]_vars

AllTargetsHit(pos) == \A i \in 1..3 : pos.tp_hit[i]

\* C19: after update_positions has repriced an ACTIVE position, it is CLOSED
\* with ALL_TP_HIT when all three targets are hit and the stop is not, CLOSED
\* with SL_HIT when the stop is hit, and ACTIVE when fewer than three targets
\* are hit and the stop is not.
C19_ClosingRule ==
    [][IsUpdateStep =>
          \A k \in Keys :
             (IsActive(positions[k]) /\ k[1] \in DOMAIN lastOp'.feed) =>
                LET q == positions'[k]
                IN  /\ (AllTargetsHit(q) /\ ~q.sl_hit)
                          => (q.status = "CLOSED" /\ q.close_reason = "ALL_TP_HIT")
                    /\ q.sl_hit
                          => (q.status = "CLOSED" /\ q.close_reason = "SL_HIT")
                    /\ (~AllTargetsHit(q) /\ ~q.sl_hit)
                          => (q.status = "ACTIVE" /\ q.close_reason = "")]_vars

\* a cycle that stopped out a position whose first target had been hit
C19_Witness ==
    /\ lastOp.op = "update_positions"
    /\ \E k \in Keys :
          /\ "sl_hit" \in lastUpdates[k]
          /\ "TP1_hit" \notin lastUpdates[k]
          /\ positions[k].tp_hit[1]
          /\ positions[k].close_reason = "SL_HIT"

ScenarioPrices == {1010, 1032, 969, 975}

ScenarioFeeds == UNION {[S -> ScenarioPrices] : S \in SUBSET Symbols}

NextScenario ==
    \/ \E s \in Symbols, tf \in SeqTimeframes, sig \in Signals, p \in EntryPrices :
          AnalyzeSymbol(s, tf, sig, p)
    \/ \E f \in ScenarioFeeds : UpdatePositions(f)
    \/ \E k \in SeqKeys, r \in Reasons : ClosePosition(k, r)
    \/ \E s \in Symbols, tf \in SeqTimeframes, r \in Reasons : ForceClosePosition(s, tf, r)

SpecScenario == Init /\ [][NextScenario]_vars

\* the LONG position of the scenario, and where the calls leave it
Scenario == PositionId("BTC", "15m", "LONG")

Opened(pos) ==
    /\ IsActive(pos)
    /\ pos.entry_price = 1000
    /\ pos.tp_hit = [i \in 1..3 |-> FALSE]
    /\ ~pos.sl_hit

AfterCall1(pos) == Opened(pos) /\ pos.current_price = 1010

AfterCall2(pos) ==
    /\ IsActive(pos)
    /\ pos.current_price = 1032
    /\ pos.tp_hit = [i \in 1..3 |-> i = 1]
    /\ ~pos.sl_hit

FedPrice(p) == IsUpdateStep /\ lastOp'.feed = [s \in Symbols |-> p]

\* C21: a LONG position opened at 100 has stop 97 and targets 103, 105, 107;
\* repriced at 101 it is unchanged but for the price, at 103.2 it has target
\* 1 hit and is still ACTIVE, then at 96.9 its stop is hit and it is CLOSED
\* with SL_HIT, while 97.5 in place of 96.9 does not hit the stop.
C21_Scenario ==
    [][/\ (lastOp'.op = "analyze_symbol" /\ lastReturn'.ok
             /\ lastReturn'.id = Scenario)
          => /\ positions'[Scenario].sl_level = 970
             /\ positions'[Scenario].tp_levels = <<1030, 1050, 1070>>
       /\ (FedPrice(1010) /\ Opened(positions[Scenario]))
          => AfterCall1(positions'[Scenario])
       /\ (FedPrice(1032) /\ AfterCall1(positions[Scenario]))
          => AfterCall2(positions'[Scenario])
       /\ (FedPrice(969) /\ AfterCall2(positions[Scenario]))
          => /\ positions'[Scenario].sl_hit
             /\ positions'[Scenario].status = "CLOSED"
             /\ positions'[Scenario].close_reason = "SL_HIT"
       /\ (FedPrice(975) /\ AfterCall2(positions[Scenario]))
          => /\ ~positions'[Scenario].sl_hit
             /\ IsActive(positions'[Scenario])]_vars

\* the position of the scenario after the third call
C21_Witness ==
    /\ lastOp.op = "update_positions"
    /\ lastOp.feed = [s \in Symbols |-> 969]
    /\ positions[Scenario] # NoPos
    /\ positions[Scenario].entry_price = 1000
    /\ positions[Scenario].tp_hit = [i \in 1..3 |-> i = 1]
    /\ positions[Scenario].close_reason = "SL_HIT"
    /\ positions[Scenario].current_price = 969
    /\ lastUpdates[Scenario] = {"sl_hit", "position_closed"}

(***************************************************************************)
(* Two instruments, so that a cycle can have a price for one position and  *)
(* none for another (lines 113-117 of update_positions).                   *)
(***************************************************************************)
SkipPrices == {972, 1028}

SkipFeeds == UNION {[S -> SkipPrices] : S \in SUBSET AllSymbols}

SkipDirections == {"LONG"}

NextSkip ==
    \/ \E s \in AllSymbols, tf \in SeqTimeframes, sig \in SkipDirections,
          p \in EntryPrices : AnalyzeSymbol(s, tf, sig, p)
    \/ \E f \in SkipFeeds : UpdatePositions(f)
    \/ \E k \in AllSymbols \X SeqTimeframes \X SkipDirections, r \in Reasons :
          ClosePosition(k, r)

SpecSkip == Init /\ [][NextSkip]_vars

\* C22: in an update_positions cycle an ACTIVE position whose symbol has no
\* price is left exactly as it was and gets no event, every ACTIVE position
\* whose symbol has a price takes that price, in this and in any later cycle.
C22_MissingPriceSkipped ==
    [][IsUpdateStep =>
          \A k \in Keys :
             IsActive(positions[k]) =>
                IF k[1] \in DOMAIN lastOp'.feed
                THEN positions'[k].current_price = lastOp'.feed[k[1]]
                ELSE /\ positions'[k] = positions[k]
                     /\ lastUpdates'[k] = {}]_vars

\* a cycle with a price for ETH only, after both positions were opened, and
\* later cycles that reprice BTC as well
C22_Witness ==
    /\ lastOp.op = "update_positions"
    /\ DOMAIN lastOp.feed = {"ETH"}
    /\ LET btc == positions[PositionId("BTC", "15m", "LONG")]
           eth == positions[PositionId("ETH", "15m", "LONG")]
       IN  /\ IsActive(btc)
           /\ btc.current_price = btc.entry_price
           /\ IsActive(eth)
           /\ eth.current_price = 1028
           /\ eth.tp_hit[1]

(***************************************************************************)
(* What update_positions writes in a position.                             *)
(***************************************************************************)
\* the attributes create_position sets and no later call should change
Fixed(pos) ==
    <<pos.symbol, pos.timeframe, pos.direction, pos.entry_price, pos.entry_time,
      pos.tp_levels, pos.sl_level, pos.signal_strength>>

\* C23 as stated: update_positions changes nothing but current_price,
\* pnl_pct, tp_hit, sl_hit, status, close_reason and close_time, and those
\* only in positions that are ACTIVE when it runs.
C23_RepriceWritesOnlyListed ==
    [][IsUpdateStep =>
          \A k \in Keys :
             IF IsActive(positions[k])
             THEN /\ Fixed(positions'[k]) = Fixed(positions[k])
                  /\ positions'[k].last_update = positions[k].last_update
             ELSE positions'[k] = positions[k]]_vars

\* C23, amended: update_positions changes nothing but current_price, pnl_pct,
\* tp_hit, sl_hit, status, close_reason, close_time and the last_update time
\* stamp, and those only in positions that are ACTIVE when it runs; symbol,
\* timeframe, direction, entry_price, entry_time, tp_levels, sl_level and
\* signal_strength never change, and a CLOSED position is left as it is.
C23_RepriceFrame ==
    [][IsUpdateStep =>
          \A k \in Keys :
             IF IsActive(positions[k])
             THEN Fixed(positions'[k]) = Fixed(positions[k])
             ELSE positions'[k] = positions[k]]_vars

\* a cycle at a later minute over an ACTIVE and a CLOSED position
C23_Witness ==
    /\ lastOp.op = "update_positions"
    /\ \E k \in Keys : \E j \in Keys :
          /\ IsActive(positions[k])
          /\ k[1] \in DOMAIN lastOp.feed
          /\ positions[k].last_update > positions[k].entry_time
          /\ positions[k].current_price # positions[k].entry_price
          /\ positions[j].status = "CLOSED"
          /\ positions[j].close_time < positions[k].last_update

(***************************************************************************)
(* The history calls over two instruments and two intervals.               *)
(***************************************************************************)
ClearTimeframes == {"15m", "1d"}

NextClear ==
    \/ \E s \in AllSymbols, tf \in ClearTimeframes, d \in Directions,
          p \in ConcEntryPrices : GuardRecord(Main, s, tf, d, p)
    \/ HistOpen(Main)
    \/ HistDump(Main)
    \/ GuardClear(Main)

SpecClear == Init /\ [][NextClear]_vars

\* the key clear_opposite_signal of the running call looks for
OppositeKey == PositionId(local[Main].symbol, local[Main].timeframe,
                          Opposite(local[Main].signal))

\* C24: clear_opposite_signal(symbol, timeframe, direction) deletes the record
\* of (symbol, timeframe, opposite direction) and no other: the record of the
\* given direction and those of every other symbol or timeframe stay as they
\* are, and without an opposite record nothing changes and nothing is saved.
C24_ClearOppositeOnly ==
    [][GuardClear(Main) =>
          /\ \A k \in HistKeys :
                signal_history'[k] = IF k = OppositeKey THEN NoHist
                                     ELSE signal_history[k]
          /\ signal_history[OppositeKey] = NoHist
                => /\ signal_history' = signal_history
                   /\ pc'[Main] = "idle"
                   /\ disk' = disk]_vars

\* clear_opposite_signal has just deleted the SHORT record of BTC 15m, still
\* in the file, beside records of the other symbol and the other timeframe
C24_Witness ==
    /\ pc[Main] = "hist_open"
    /\ local[Main].after = "idle"
    /\ signal_history[PositionId("BTC", "15m", "SHORT")] = NoHist
    /\ durable.history[PositionId("BTC", "15m", "SHORT")] # NoHist
    /\ signal_history[PositionId("BTC", "15m", "LONG")] # NoHist
    /\ signal_history[PositionId("ETH", "15m", "SHORT")] # NoHist
    /\ signal_history[PositionId("BTC", "1d", "SHORT")] # NoHist

(***************************************************************************)
(* The level calculators as functions of their inputs.  Prices are whole   *)
(* numbers of the smallest unit the calculator rounds to (1e-6 for         *)
(* RiskCalculator.calculate_levels, 1e-8 for _calculate_levels),           *)
(* percentages per mille.                                                  *)
(***************************************************************************)
NoLevels == [outcome |-> "empty"]

\* RiskCalculator.calculate_levels: {} for an entry that is missing or not
\* positive, else the rounded levels
RiskCalculator_calculate_levels(entry, direction, sl_pct, tp_levels) ==
    IF entry <= 0 THEN NoLevels
    ELSE IF direction = "LONG"
    THEN [outcome |-> "levels",
          entry_price |-> entry,
          stop_loss |-> RoundHalfEven(entry * (1000 - sl_pct), 1000),
          take_profit |-> [i \in 1..3 |->
                              RoundHalfEven(entry * (1000 + tp_levels[i]), 1000)]]
    ELSE [outcome |-> "levels",
          entry_price |-> entry,
          stop_loss |-> RoundHalfEven(entry * (1000 + sl_pct), 1000),
          take_profit |-> [i \in 1..3 |->
                              RoundHalfEven(entry * (1000 - tp_levels[i]), 1000)]]

RiskEntries == {-1, 0, 1, 2, 3, 10, 50, 100, 1000}
RiskStops == {20, 30}
RiskTargets == {<<30, 50, 70>>, <<20, 35, 50>>, <<10, 20, 30>>}

\* a call of RiskCalculator.calculate_levels
ComputeRisk(entry, direction, sl_pct, tp_levels) ==
    LET r == RiskCalculator_calculate_levels(entry, direction, sl_pct, tp_levels)
    IN  /\ lastOp' = Op("RiskCalculator.calculate_levels",
                        <<entry, direction, sl_pct, tp_levels>>, NoFeed, FALSE)
        /\ lastReturn' = [ok |-> r # NoLevels, id |-> NoId, notify |-> FALSE,
                          outcome |-> r.outcome,
                          entry |-> entry,
                          direction |-> direction,
                          stop |-> IF r = NoLevels THEN 0 ELSE r.stop_loss,
                          targets |-> IF r = NoLevels THEN <<0, 0, 0>>
                                      ELSE r.take_profit]
        /\ UNCHANGED <<positions, active_positions, signal_history, now,
                       lastUpdates, pc, local, emitted, accepted, disk, durable, services, last_signals, price_cache, wsm>>

\* a call of PositionManager._calculate_levels, made by create_position
\* after validate_price_data let the entry price through
ComputeLevels(entry_price, direction, timeframe) ==
    LET r == calculate_levels(entry_price, direction, timeframe)
    IN  /\ validate_price_data(entry_price)
        /\ lastOp' = Op("_calculate_levels", <<entry_price, direction, timeframe>>,
                        NoFeed, FALSE)
        /\ lastReturn' = [ok |-> TRUE, id |-> NoId, notify |-> FALSE,
                          outcome |-> "levels",
                          entry |-> entry_price,
                          direction |-> direction,
                          stop |-> r.sl_level,
                          targets |-> r.tp_levels]
        /\ UNCHANGED <<positions, active_positions, signal_history, now,
                       lastUpdates, pc, local, emitted, accepted, disk, durable, services, last_signals, price_cache, wsm>>

NextRisk ==
    \/ \E entry \in RiskEntries, d \in Directions, sl \in RiskStops,
          tps \in RiskTargets : ComputeRisk(entry, d, sl, tps)
    \/ \E entry \in RiskEntries, d \in Directions, tf \in {"15m", "1h", "1d"} :
          ComputeLevels(entry, d, tf)

SpecRisk == Init /\ [][NextRisk]_vars

Computed ==
    lastOp.op \in {"RiskCalculator.calculate_levels", "_calculate_levels"}

\* C25: for every entry > 0 the levels a calculator returns are strictly
\* ordered after rounding: stop < entry < target 1 < target 2 < target 3 for
\* LONG, target 3 < target 2 < target 1 < entry < stop for SHORT.
C25_LevelsStrictlyOrdered ==
    (Computed /\ lastReturn.entry > 0) =>
        /\ lastReturn.outcome = "levels"
        /\ IF lastReturn.direction = "LONG"
           THEN /\ lastReturn.stop < lastReturn.entry
                /\ lastReturn.entry < lastReturn.targets[1]
                /\ lastReturn.targets[1] < lastReturn.targets[2]
                /\ lastReturn.targets[2] < lastReturn.targets[3]
           ELSE /\ lastReturn.targets[3] < lastReturn.targets[2]
                /\ lastReturn.targets[2] < lastReturn.targets[1]
                /\ lastReturn.targets[1] < lastReturn.entry
                /\ lastReturn.entry < lastReturn.stop

\* C26: RiskCalculator.calculate_levels answers an entry <= 0 with an error
\* outcome, not with an ordinary result, and changes nothing else.
C26_InvalidEntryRejected ==
    [][\A entry \in RiskEntries, d \in Directions, sl \in RiskStops,
          tps \in RiskTargets :
          (ComputeRisk(entry, d, sl, tps) /\ entry <= 0)
             => /\ lastReturn'.outcome = "error"
                /\ UNCHANGED <<positions, active_positions, signal_history,
                               disk, durable>>]_vars

(***************************************************************************)
(* Signals that arrive with a price that is zero, negative or missing      *)
(* (None, written 0 here: validate_price_data refuses both alike).         *)
(***************************************************************************)
InvalidPrices == {-1, 0}

NextInvalid ==
    \/ \E s \in Symbols, tf \in SeqTimeframes, sig \in Directions,
          p \in InvalidPrices \cup EntryPrices : AnalyzeSymbol(s, tf, sig, p)
    \/ \E f \in Feeds : UpdatePositions(f)
    \/ \E s \in Symbols, tf \in SeqTimeframes, r \in Reasons : ForceClosePosition(s, tf, r)

SpecInvalid == Init /\ [][NextInvalid]_vars

\* C27: a create request whose entry price is not positive returns no id and
\* changes neither the positions in memory nor the positions file.
C27_InvalidEntryNoMutation ==
    [][\A s \in Symbols, tf \in SeqTimeframes, sig \in Directions,
          p \in InvalidPrices :
          AnalyzeSymbol(s, tf, sig, p)
             => /\ ~lastReturn'.ok
                /\ lastReturn'.id = NoId
                /\ positions' = positions
                /\ active_positions' = active_positions
                /\ disk' = disk
                /\ durable' = durable]_vars

\* a signal was refused although nothing is open or tracked for its pair, so
\* for its price alone, with an earlier position in the store
C27_Witness ==
    /\ lastOp.op = "analyze_symbol"
    /\ ~lastReturn.ok
    /\ active_positions = {}
    /\ \A k \in Keys : ~IsActive(positions[k])
    /\ \E k \in Keys : positions[k].status = "CLOSED"
    /\ disk.positions_file = Full(positions)

(***************************************************************************)
(* Shutdown.  The writers run on daemon threads (the monitor thread of     *)
(* main.py line 192-196, the websocket thread, the jobs of the             *)
(* BackgroundScheduler); stop_scheduler calls scheduler.shutdown with      *)
(* wait=False, no signal handler and no join exists, so when the process   *)
(* exits the writer is stopped wherever it stands.                         *)
(***************************************************************************)
Stopper == "caller2"

\* SignalScheduler.stop_scheduler: shutdown(wait=False) returns at once
StopScheduler ==
    /\ pc[Stopper] = "idle"
    /\ pc' = [pc EXCEPT ![Stopper] = "stopped"]
    /\ UNCHANGED <<positions, active_positions, signal_history, now, seqVars,
                   local, emitted, accepted, storeVars>>

\* the interpreter exits: daemon threads are not waited for
ProcessExit ==
    /\ pc[Main] # "exited"
    /\ pc' = [t \in Threads |-> "exited"]
    /\ UNCHANGED <<positions, active_positions, signal_history, now, seqVars,
                   local, emitted, accepted, storeVars>>

NextShutdown ==
    \/ \E s \in Symbols, tf \in SeqTimeframes, sig \in StoreDirections,
          p \in ConcEntryPrices : StoreCreate(Main, s, tf, sig, p)
    \/ StoreTrack(Main)
    \/ \E f \in StoreFeeds : StoreUpdate(Main, f)
    \/ SaveRename(Main)
    \/ SaveOpen(Main)
    \/ SaveDump(Main)
    \/ \E s \in Symbols, tf \in SeqTimeframes, d \in Directions, p \in ConcEntryPrices :
          GuardRecord(Main, s, tf, d, p)
    \/ HistOpen(Main)
    \/ HistDump(Main)
    \/ GuardClear(Main)
    \/ StopScheduler
    \/ ProcessExit

SpecShutdown == Init /\ [][NextShutdown]_vars

Writing(t) == Saving(t) \/ pc[t] \in {"hist_open", "hist_dump"}

\* C28: the process does not exit while a save of the positions or of the
\* history is under way, before or after the scheduler was stopped.
C28_ExitWaitsForSave ==
    [][ProcessExit => ~Writing(Main)]_vars

(***************************************************************************)
(* Service initialisation (main.py, initialize_services_background, run on *)
(* its own thread) and the HTTP endpoints, which may be called at any      *)
(* point of it.                                                            *)
(***************************************************************************)
Endpoints == {"/health", "/api/positions", "/api/positions/summary",
              "/api/scheduler/status", "/api/debug/services"}

\* steps 1-3 (lines 96-116): ConfigManager, DataManager, PositionManager; an
\* exception here ends the initialisation with initialized False (204-206)
InitCore(ok) ==
    /\ pc[Main] = "idle"
    /\ services = NoServices
    /\ IF ok
       THEN /\ services' = [services EXCEPT !.position_manager = TRUE]
            /\ pc' = [pc EXCEPT ![Main] = "init_scheduler"]
       ELSE /\ services' = services
            /\ pc' = [pc EXCEPT ![Main] = "init_failed"]
    /\ UNCHANGED <<positions, active_positions, signal_history, now, seqVars,
                   local, emitted, accepted, disk, durable, last_signals, price_cache, wsm>>

\* step 6, line 157: services["scheduler"] = SignalScheduler(scheduler_config)
InitSchedulerCreate ==
    /\ pc[Main] = "init_scheduler"
    /\ services' = [services EXCEPT !.scheduler = TRUE]
    /\ pc' = [pc EXCEPT ![Main] = "init_inject"]
    /\ UNCHANGED <<positions, active_positions, signal_history, now, seqVars,
                   local, emitted, accepted, disk, durable, last_signals, price_cache, wsm>>

\* step 6, lines 160-175: set_services is called with member_manager=...,
\* a keyword SignalScheduler.set_services (scheduler.py line 145) does not
\* take: TypeError, caught, services["scheduler"] = None
InitSchedulerInject ==
    /\ pc[Main] = "init_inject"
    /\ services' = [services EXCEPT !.scheduler = FALSE]
    /\ pc' = [pc EXCEPT ![Main] = "init_finish"]
    /\ UNCHANGED <<positions, active_positions, signal_history, now, seqVars,
                   local, emitted, accepted, disk, durable, last_signals, price_cache, wsm>>

\* line 198: services["initialized"] = True
InitFinish ==
    /\ pc[Main] = "init_finish"
    /\ services' = [services EXCEPT !.initialized = TRUE]
    /\ pc' = [pc EXCEPT ![Main] = "init_done"]
    /\ UNCHANGED <<positions, active_positions, signal_history, now, seqVars,
                   local, emitted, accepted, disk, durable, last_signals, price_cache, wsm>>

\* the status code of a GET: health_check (lines 351-362), require_services
\* (596-607) and the handlers' own try/except (500 on an exception)
status_code(endpoint, sv) ==
    IF endpoint = "/health" THEN (IF sv.initialized THEN 200 ELSE 503)
    ELSE IF ~sv.initialized THEN 503
    ELSE IF endpoint = "/api/scheduler/status"
         THEN (IF sv.scheduler THEN 200 ELSE 500)
    ELSE IF endpoint \in {"/api/positions", "/api/positions/summary"}
         THEN (IF sv.position_manager THEN 200 ELSE 500)
    ELSE 200

Get(endpoint) ==
    /\ lastOp' = Op("GET", endpoint, NoFeed, FALSE)
    /\ lastReturn' = [ok |-> TRUE, id |-> NoId, notify |-> FALSE,
                      status |-> status_code(endpoint, services)]
    /\ UNCHANGED <<positions, active_positions, signal_history, now, lastUpdates,
                   pc, local, emitted, accepted, disk, durable, services, last_signals, price_cache, wsm>>

\* signals and the monitoring loop (line 241) work once initialized is True
NextInit ==
    \/ \E ok \in BOOLEAN : InitCore(ok)
    \/ InitSchedulerCreate
    \/ InitSchedulerInject
    \/ InitFinish
    \/ \E e \in Endpoints : Get(e)
    \/ \E s \in Symbols, tf \in SeqTimeframes, sig \in Directions, p \in EntryPrices :
          services.initialized /\ AnalyzeSymbol(s, tf, sig, p)
    \/ \E f \in ConcFeeds : services.initialized /\ UpdatePositions(f)

SpecInit == Init /\ [][NextInit]_vars

\* C29: at every point of the initialisation GET /health answers 200 when
\* services are initialized and 503 otherwise, and the guarded endpoints
\* answer 503 while they are not and 200 or 503, nothing else, at any time.
C29_EndpointStatus ==
    [][\A e \in Endpoints :
          Get(e) =>
             IF e = "/health"
             THEN lastReturn'.status = IF services.initialized THEN 200 ELSE 503
             ELSE /\ lastReturn'.status \in {200, 503}
                  /\ ~services.initialized => lastReturn'.status = 503]_vars

(***************************************************************************)
(* SignalScheduler: the deduplication of the signals a scan returns        *)
(* (scheduler.py).  Times are minutes.                                     *)
(***************************************************************************)
\* Config.SIGNAL_COOLDOWN_MINUTES (settings.py line 27), its default
cooldown_minutes == 30
Day == 1440
\* the instants the scheduler's clock is read at: inside the cooldown, at its
\* end, and past the 24 hours of the clean-up
SchedClock == {0, 29, 30, 1441}
Strengths == {74, 75}
NoSymbol == ""

\* _is_duplicate_signal, its answer (lines 111-124)
is_duplicate_signal(ls, key, t) ==
    /\ ls[key] # NoTime
    /\ t - ls[key] < cooldown_minutes

\* _is_duplicate_signal, its clean-up when the answer is False (lines 126-133)
clean_old_signals(ls, t) ==
    [k \in SchedKeys |-> IF ls[k] # NoTime /\ ls[k] < t - Day THEN NoTime ELSE ls[k]]

\* _record_signal (lines 137-143); the file is written after the table and an
\* error of the write is logged, not raised (lines 81-97)
sched_record_signal(ls, key, t) == [ls EXCEPT ![key] = t]

\* the signals a scan hands over: symbol, signal_strength, signals.buy,
\* signals.short and position_created (lines 351-354)
ScanSignals ==
    [symbol : Symbols \cup {NoSymbol}, signal_strength : Strengths,
     buy : BOOLEAN, short : BOOLEAN, position_created : BOOLEAN]

\* lines 367-371
signal_direction(signal) ==
    IF signal.buy THEN "LONG" ELSE IF signal.short THEN "SHORT" ELSE "NONE"

\* _process_signal_refactored recording only the signals it sends
ProcessForgetsUnsent(ls, t, signal, timeframe, line_notifier) ==
    LET direction == signal_direction(signal)
        skip == [last_signals |-> ls, ok |-> FALSE, sent |-> FALSE]
    IN  IF signal.symbol = NoSymbol THEN skip
        ELSE IF signal.signal_strength < 75 THEN skip
        ELSE IF direction = "NONE" THEN skip
        ELSE LET key == <<signal.symbol, timeframe, direction>>
             IN  IF is_duplicate_signal(ls, key, t) THEN skip
                 ELSE IF ~signal.position_created THEN skip
                 ELSE [last_signals |->
                          sched_record_signal(clean_old_signals(ls, t), key, t),
                       ok |-> TRUE, sent |-> line_notifier]

\* _process_signal_refactored (lines 338-412): the table, the return value
\* and whether send_signal_alert was called
process_signal_refactored(ls, t, signal, timeframe, line_notifier) ==
    LET direction == signal_direction(signal)
        skip == [last_signals |-> ls, ok |-> FALSE, sent |-> FALSE]
    IN  IF signal.symbol = NoSymbol THEN skip
        ELSE IF signal.signal_strength < 75 THEN skip
        ELSE IF direction = "NONE" THEN skip
        ELSE LET key == <<signal.symbol, timeframe, direction>>
             IN  IF is_duplicate_signal(ls, key, t) THEN skip
                 ELSE IF ~signal.position_created
                 THEN [last_signals |->
                          sched_record_signal(clean_old_signals(ls, t), key, t),
                       ok |-> FALSE, sent |-> FALSE]
                 ELSE [last_signals |->
                          sched_record_signal(clean_old_signals(ls, t), key, t),
                       ok |-> TRUE, sent |-> line_notifier]

ProcessSignal(signal, timeframe, line_notifier) ==
    LET r == process_signal_refactored(last_signals, now, signal, timeframe,
                                       line_notifier)
    IN  /\ last_signals' = r.last_signals
        /\ lastOp' = Op("process_signal", <<signal, timeframe>>, NoFeed, FALSE)
        /\ lastReturn' = [ok |-> r.ok, id |-> NoId, notify |-> r.sent]
        /\ UNCHANGED <<positions, active_positions, signal_history, now,
                       lastUpdates, pc, local, emitted, accepted, disk, durable,
                       services, price_cache, wsm>>

\* time passes between two scans
SchedElapse(t2) ==
    /\ t2 \in SchedClock
    /\ t2 > now
    /\ now' = t2
    /\ UNCHANGED <<positions, active_positions, signal_history, seqVars,
                   pc, local, emitted, accepted, storeVars>>

NextSched ==
    \/ \E signal \in ScanSignals, tf \in SchedTimeframes, notifier \in BOOLEAN :
          ProcessSignal(signal, tf, notifier)
    \/ \E t2 \in SchedClock : SchedElapse(t2)

SpecSched == Init /\ [][NextSched]_vars

\* the key of the signal last processed
ProcessedKey ==
    <<lastOp.arg[1].symbol, lastOp.arg[2], signal_direction(lastOp.arg[1])>>

\* C30: _process_signal_refactored sends the notification only for a signal
\* of strength 75 or more that has a direction, is outside the scheduler
\* cooldown of its key and has position_created; with position_created false
\* it sends nothing and still records the signal, and a recorded key stays a
\* duplicate until its cooldown has run out.
C30_NotifyOnlyQualified ==
    [][/\ \A signal \in ScanSignals, tf \in SchedTimeframes, notifier \in BOOLEAN :
             ProcessSignal(signal, tf, notifier) =>
                LET key == <<signal.symbol, tf, signal_direction(signal)>>
                    fresh == /\ signal.symbol # NoSymbol
                             /\ signal.signal_strength >= 75
                             /\ signal.buy \/ signal.short
                             /\ ~is_duplicate_signal(last_signals, key, now)
                IN  /\ lastReturn'.notify => fresh /\ signal.position_created
                    /\ (fresh /\ ~signal.position_created) =>
                          /\ ~lastReturn'.notify
                          /\ last_signals'[key] = now
                          /\ is_duplicate_signal(last_signals', key, now')
       /\ \A k \in SchedKeys :
             (/\ is_duplicate_signal(last_signals, k, now)
              /\ ~is_duplicate_signal(last_signals', k, now'))
             => now' - last_signals[k] >= cooldown_minutes]_vars

\* a signal without a position was recorded and not sent
C30_Witness ==
    /\ lastOp.op = "process_signal"
    /\ lastOp.arg[1].symbol # NoSymbol
    /\ lastOp.arg[1].signal_strength >= 75
    /\ lastOp.arg[1].buy \/ lastOp.arg[1].short
    /\ ~lastOp.arg[1].position_created
    /\ ~lastReturn.notify
    /\ ~lastReturn.ok
    /\ last_signals[ProcessedKey] = now
    /\ now > 0
(***************************************************************************)
(* The retention sweep (position_manager.py lines 305-327), called by      *)
(* SignalDetector.shutdown.  Times are minutes of the local clock.         *)
(***************************************************************************)
\* days_old = 30, in minutes
CutoffAge == 43200
\* the offset of the host's local time from UTC, in minutes
UtcOffsets == {-300, 0, 420}
\* the instants of the sweep: a close, and a month later
SweepClock == {0, 60, 43200, 43260}

\* datetime.now().timestamp() reads the local clock as local time (line 308)
\* while pd.to_datetime(close_time).timestamp() reads the naive local
\* close_time as UTC (line 315)
cleanup_old_positions(ps, t, days_old, utc_offset) ==
    LET cutoff_date == (t - utc_offset) - days_old
        old(k) == /\ ps[k].status = "CLOSED"
                  /\ ps[k].close_time >= 0
                  /\ ps[k].close_time < cutoff_date
    IN  [k \in Keys |-> IF old(k) THEN NoPos ELSE ps[k]]

CleanupOldPositions(utc_offset) ==
    LET ps == cleanup_old_positions(positions, now, CutoffAge, utc_offset)
    IN  /\ positions' = ps
        /\ lastOp' = Op("cleanup_old_positions", <<utc_offset>>, NoFeed, FALSE)
        /\ lastReturn' = [ok |-> ps # positions, id |-> NoId, notify |-> FALSE]
        /\ lastUpdates' = NoUpdates
        /\ SavePositions(ps # positions, ps)
        /\ UNCHANGED <<active_positions, signal_history, now>>
        /\ UNCHANGED callerVars

SweepElapse(t2) ==
    /\ t2 \in SweepClock
    /\ t2 > now
    /\ now' = t2
    /\ UNCHANGED <<positions, active_positions, signal_history, seqVars,
                   pc, local, emitted, accepted, storeVars>>

NextSweep ==
    \/ \E s \in Symbols, tf \in SeqTimeframes, sig \in Directions, p \in EntryPrices :
          AnalyzeSymbol(s, tf, sig, p)
    \/ \E f \in Feeds : UpdatePositions(f)
    \/ \E k \in SeqKeys, r \in Reasons : ClosePosition(k, r)
    \/ \E off \in UtcOffsets : CleanupOldPositions(off)
    \/ \E t2 \in SweepClock : SweepElapse(t2)

SpecSweep == Init /\ [][NextSweep]_vars

\* C31: cleanup_old_positions removes exactly the positions that are CLOSED
\* with a close time more than the cutoff age (30 days) ago; an ACTIVE
\* position and a CLOSED position younger than the cutoff stay.
C31_SweepRemovesExactlyOld ==
    [][\A off \in UtcOffsets :
          CleanupOldPositions(off) =>
             \A k \in Keys :
                IF /\ positions[k].status = "CLOSED"
                   /\ now - positions[k].close_time > CutoffAge
                THEN positions'[k] = NoPos
                ELSE positions'[k] = positions[k]]_vars

(***************************************************************************)
(* The entry price against the cached price of the symbol                  *)
(* (position_manager.py lines 47-51, data_manager.py lines 109-115).       *)
(***************************************************************************)
\* a price the exchange returned, and an entry 40% above it
CachePrices == {1000}
FarEntryPrices == {1400}

\* DataManager.get_current_prices: the prices fetched are put in the cache
\* under "price_<symbol>" (line 115)
GetCurrentPrices(f) ==
    /\ price_cache' = [k \in CacheKeys |->
                          IF \E s \in DOMAIN f : CacheKey(s) = k
                          THEN f[CHOOSE s \in DOMAIN f : CacheKey(s) = k]
                          ELSE price_cache[k]]
    /\ lastOp' = Op("get_current_prices", <<>>, f, FALSE)
    /\ lastReturn' = [ok |-> TRUE, id |-> NoId, notify |-> FALSE]
    /\ UNCHANGED <<positions, active_positions, signal_history, now, lastUpdates,
                   pc, local, emitted, accepted, disk, durable, services,
                   last_signals, wsm>>

NextCache ==
    \/ \E S \in SUBSET Symbols : \E f \in [S -> CachePrices] : GetCurrentPrices(f)
    \/ \E s \in Symbols, tf \in SeqTimeframes, sig \in Directions,
          p \in EntryPrices \cup FarEntryPrices : AnalyzeSymbol(s, tf, sig, p)
    \/ \E f \in Feeds : UpdatePositions(f)
    \/ \E s \in Symbols, tf \in SeqTimeframes, r \in Reasons : ForceClosePosition(s, tf, r)

SpecCache == Init /\ [][NextCache]_vars

\* C32: a create request whose entry price is more than 30% away from the
\* price cached for its symbol returns no id and leaves the store as it was;
\* with no cached price the entry price is accepted.
C32_FarEntryRejected ==
    [][\A s \in Symbols, tf \in SeqTimeframes, sig \in Directions,
          p \in EntryPrices \cup FarEntryPrices :
          AnalyzeSymbol(s, tf, sig, p) =>
             LET cached == price_cache[CacheKey(s)]
                 diff == IF p >= cached THEN p - cached ELSE cached - p
             IN  (cached # NoPrice /\ diff * 100 > 30 * cached)
                    => /\ lastReturn'.id = NoId
                       /\ positions' = positions]_vars

(***************************************************************************)
(* WebSocketManager (websocket_manager.py).  A thread the manager started  *)
(* is "connecting" or "open" while its run_forever holds a connection,     *)
(* "closing" once the connection is gone and _on_close is due, "counting"  *)
(* and "sleeping" inside _attempt_reconnect, and "none" when it has ended. *)
(***************************************************************************)
wsRest == <<positions, active_positions, signal_history, now, seqVars, pc, local, emitted, accepted, disk, durable, services, last_signals, price_cache>>

\* connect (lines 51-79) with t the thread it starts
connect(w, t) ==
    IF w.is_running THEN w
    ELSE [w EXCEPT !.is_running = TRUE, !.reconnect_attempts = 0, !.ws = t,
                   !.thread[t] = "connecting"]

\* disconnect (lines 93-103): self.ws.close() ends the connection of the
\* WebSocketApp in self.ws, whose thread then runs _on_close
disconnect(w) ==
    [w EXCEPT !.is_running = FALSE,
              !.thread = IF w.ws # 0 /\ w.thread[w.ws] \in {"connecting", "open"}
                         THEN [w.thread EXCEPT ![w.ws] = "closing"]
                         ELSE w.thread]

WsConnect ==
    /\ \E t \in WsThreads : wsm.thread[t] = "none" /\ wsm' = connect(wsm, t)
    /\ UNCHANGED wsRest

WsDisconnect ==
    /\ wsm' = disconnect(wsm)
    /\ UNCHANGED wsRest

\* change_stream up to its time.sleep(2) (lines 231-237)
ChangeStreamDisconnect ==
    /\ ~wsm.changing
    /\ wsm' = [disconnect(wsm) EXCEPT !.changing = TRUE]
    /\ UNCHANGED wsRest

\* change_stream after the sleep (lines 239-245)
ChangeStreamConnect ==
    /\ wsm.changing
    /\ \E t \in WsThreads :
          /\ wsm.thread[t] = "none"
          /\ wsm' = [connect(wsm, t) EXCEPT !.changing = FALSE]
    /\ UNCHANGED wsRest

\* _on_open (lines 146-150)
OnOpen(t) ==
    /\ wsm.thread[t] = "connecting"
    /\ wsm' = [wsm EXCEPT !.thread[t] = "open", !.reconnect_attempts = 0]
    /\ UNCHANGED wsRest

\* the connection fails or is closed by the other side
ConnectionLost(t) ==
    /\ wsm.thread[t] \in {"connecting", "open"}
    /\ wsm' = [wsm EXCEPT !.thread[t] = "closing"]
    /\ UNCHANGED wsRest

\* _on_close (lines 156-172) and the limit test of _attempt_reconnect
\* (lines 176-184)
OnClose(t) ==
    /\ wsm.thread[t] = "closing"
    /\ wsm' = IF ~wsm.is_running THEN [wsm EXCEPT !.thread[t] = "none"]
              ELSE IF wsm.reconnect_attempts >= max_reconnect_attempts
              THEN [wsm EXCEPT !.is_running = FALSE, !.thread[t] = "none"]
              ELSE [wsm EXCEPT !.thread[t] = "counting"]
    /\ UNCHANGED wsRest

\* self.reconnect_attempts += 1 (line 186), then time.sleep (line 194)
CountAttempt(t) ==
    /\ wsm.thread[t] = "counting"
    /\ wsm' = [wsm EXCEPT !.reconnect_attempts = @ + 1, !.thread[t] = "sleeping"]
    /\ UNCHANGED wsRest

\* after the sleep (lines 196-214): with is_running a new WebSocketApp and a
\* new thread, which takes the place of this one, are started
Wake(t) ==
    /\ wsm.thread[t] = "sleeping"
    /\ wsm' = IF wsm.is_running
              THEN [wsm EXCEPT !.ws = t, !.thread[t] = "connecting"]
              ELSE [wsm EXCEPT !.thread[t] = "none"]
    /\ UNCHANGED wsRest

NextWs ==
    \/ WsConnect
    \/ WsDisconnect
    \/ ChangeStreamDisconnect
    \/ ChangeStreamConnect
    \/ \E t \in WsThreads : OnOpen(t)
    \/ \E t \in WsThreads : ConnectionLost(t)
    \/ \E t \in WsThreads : OnClose(t)
    \/ \E t \in WsThreads : CountAttempt(t)
    \/ \E t \in WsThreads : Wake(t)

SpecWs == Init /\ [][NextWs]_vars

\* the threads that hold a connection
Connections == {t \in WsThreads : wsm.thread[t] \in {"connecting", "open"}}

\* C33: the reconnect counter never exceeds max_reconnect_attempts.
C33_ReconnectCounterBounded == wsm.reconnect_attempts <= max_reconnect_attempts

\* C40: after any sequence of connect, disconnect, change_stream and closed
\* connections at most one connection thread is running.
C40_OneConnection == Cardinality(Connections) <= 1

\* C34: a position that is ACTIVE has its stop unflagged and at least one
\* target unflagged: the reprice that flags the stop or the last target
\* closes the position in the same cycle.
C34_ActiveNotTerminal ==
    \A k \in Keys :
       IsActive(positions[k]) =>
          /\ ~positions[k].sl_hit
          /\ \E i \in 1..3 : ~positions[k].tp_hit[i]

\* a reprice flagged the last target or the stop and the position is CLOSED
C34_Witness ==
    /\ lastOp.op = "update_positions"
    /\ \E k \in Keys :
          /\ positions[k].status = "CLOSED"
          /\ positions[k].close_reason \in {"ALL_TP_HIT", "SL_HIT"}
          /\ positions[k].sl_hit \/ \A i \in 1..3 : positions[k].tp_hit[i]
    /\ \E k \in Keys :
          /\ IsActive(positions[k])
          /\ \E i \in 1..3 : positions[k].tp_hit[i]

(***************************************************************************)
(* A manual close (POST /api/positions/close) while one update_positions   *)
(* call is under way.                                                      *)
(***************************************************************************)
NextManual ==
    \/ \E s \in Symbols, tf \in SeqTimeframes, sig \in Directions,
          p \in ConcEntryPrices : OpenBetweenUpdates(s, tf, sig, p)
    \/ \E k \in SeqKeys, r \in Reasons : ClosePosition(k, r)
    \/ Tick
    \/ UpdSnapshot(Main)
    \/ \E f \in ConcFeeds : UpdFetch(Main, f)
    \/ UpdPick(Main)
    \/ UpdTpTest(Main)
    \/ UpdTpSet(Main)
    \/ UpdSlTest(Main)
    \/ UpdSlSet(Main)
    \/ UpdReturn(Main)

SpecManual == Init /\ [][NextManual]_vars

\* C35: a reprice cycle that collected a position as ACTIVE and finds it
\* closed manually in the meantime leaves its close_reason, close_time,
\* tp_hit and sl_hit as the manual close left them and returns no crossing
\* for it.
C35_ManualCloseStands ==
    [][\A k \in Keys :
          (/\ positions[k].status = "CLOSED"
           /\ positions[k].close_reason = "MANUAL"
           /\ pc[Main] # "idle"
           /\ pc' # pc \/ local' # local)
          => /\ positions'[k].status = "CLOSED"
             /\ positions'[k].close_reason = positions[k].close_reason
             /\ positions'[k].close_time = positions[k].close_time
             /\ positions'[k].tp_hit = positions[k].tp_hit
             /\ positions'[k].sl_hit = positions[k].sl_hit
             /\ emitted'[k] = emitted[k]]_vars

\* C36: once the position the orchestrator opened for a pair has been closed
\* by a reprice (stop or all targets) and no position of the pair is ACTIVE,
\* the next signal the orchestrator evaluates for the pair opens a position:
\* the tracking set does not go on refusing it.
C36_ReopenAfterAutoClose ==
    [][\A s \in Symbols, tf \in SeqTimeframes, sig \in Directions, p \in EntryPrices :
          (/\ AnalyzeSymbol(s, tf, sig, p)
           /\ \A d \in Directions : ~IsActive(positions[PositionId(s, tf, d)])
           /\ \E d \in Directions :
                 /\ positions[PositionId(s, tf, d)].status = "CLOSED"
                 /\ positions[PositionId(s, tf, d)].close_reason
                       \in {"SL_HIT", "ALL_TP_HIT"})
          => /\ lastReturn'.ok
             /\ IsActive(positions'[PositionId(s, tf, sig)])]_vars

\* C37: force_close_position reports success only when it closed an ACTIVE
\* position of the pair, and after a success no position of the pair is
\* ACTIVE in either direction, a CLOSED record of the other direction
\* notwithstanding.
C37_ForceCloseClosesActive ==
    [][\A s \in Symbols, tf \in SeqTimeframes, r \in Reasons :
          (ForceClosePosition(s, tf, r) /\ lastReturn'.ok)
          => /\ \E d \in Directions : IsActive(positions[PositionId(s, tf, d)])
             /\ \A d \in Directions : ~IsActive(positions'[PositionId(s, tf, d)])]_vars

\* C38: an analyze_symbol evaluation that opens a position for its signal,
\* with the history gate open, reaches the notification step: the signal is
\* recorded in the history and the alert is handed to the notifier.
C38_CreatedSignalNotified ==
    [][\A s \in Symbols, tf \in SeqTimeframes, sig \in Directions, p \in EntryPrices :
          (/\ AnalyzeSymbol(s, tf, sig, p)
           /\ lastReturn'.ok
           /\ should_notify(signal_history, s, tf, sig, now))
          => /\ lastReturn'.notify
             /\ signal_history'[PositionId(s, tf, sig)] # NoHist
             /\ signal_history'[PositionId(s, tf, sig)].date = now]_vars

(***************************************************************************)
(* The daily scan: scan_multiple_symbols and get_active_signals            *)
(* (signal_detector.py lines 872-946) over analyze_symbol.                 *)
(***************************************************************************)
ScanTimeframes == {"1d"}

\* what analyze_symbol returns: with a signal, line 185 raises and the
\* except branch returns an error dictionary, which has no "signals"
analyze_symbol_result(signal) ==
    IF signal = "NONE" THEN [error |-> FALSE, signal |-> "NONE"]
    ELSE [error |-> TRUE, signal |-> "NONE"]

\* lines 884-921 for one symbol and timeframe: the history after it and
\* whether the result was appended to results
scan_result(hist, result, symbol, timeframe, current_price, t) ==
    IF timeframe = "1d" /\ result.signal # "NONE"
    THEN IF should_notify(hist, symbol, timeframe, result.signal, t)
         THEN [history |-> clear_opposite_signal(
                              record_signal(hist, symbol, timeframe, result.signal,
                                            current_price, t),
                              symbol, timeframe, result.signal),
               listed |-> TRUE]
         ELSE [history |-> hist, listed |-> FALSE]
    ELSE [history |-> hist, listed |-> TRUE]

\* get_active_signals, lines 938-943
is_active_signal(result) == ~result.error /\ result.signal # "NONE"

ScanSymbol(symbol, timeframe, signal, current_price) ==
    LET h == handle_signal_position_fixed(positions, active_positions, symbol,
                                          timeframe, signal, current_price, now)
        result == analyze_symbol_result(signal)
        sc == scan_result(signal_history, result, symbol, timeframe,
                          current_price, now)
    IN  /\ positions' = h.positions
        /\ active_positions' = h.active_positions
        /\ signal_history' = sc.history
        /\ lastOp' = Op("scan_multiple_symbols", <<symbol, timeframe, signal>>,
                        NoFeed, FALSE)
        /\ lastReturn' = [ok |-> h.created, id |-> NoId, notify |-> FALSE,
                          listed |-> sc.listed,
                          active |-> sc.listed /\ is_active_signal(result)]
        /\ lastUpdates' = NoUpdates
        /\ SavePositions(h.created, h.positions)
        /\ emitted' = IF h.created
                      THEN [emitted EXCEPT ![PositionId(symbol, timeframe, signal)] =
                               NoneEmitted]
                      ELSE emitted
        /\ UNCHANGED <<now, pc, local, accepted>>

NextScan ==
    \/ \E s \in Symbols, tf \in ScanTimeframes, sig \in Signals, p \in EntryPrices :
          ScanSymbol(s, tf, sig, p)
    \/ \E f \in Feeds : UpdatePositions(f)
    \/ \E s \in Symbols, tf \in ScanTimeframes, r \in Reasons : ForceClosePosition(s, tf, r)
    \/ \E t2 \in ShortClock : Elapse(t2)

SpecScan == Init /\ [][NextScan]_vars

\* C39: a 1d signal whose key has no history record before the scan is in
\* the list scan_multiple_symbols returns and is passed on by
\* get_active_signals.
C39_NewDailySignalPassedOn ==
    [][\A s \in Symbols, tf \in ScanTimeframes, sig \in Directions, p \in EntryPrices :
          (/\ ScanSymbol(s, tf, sig, p)
           /\ signal_history[PositionId(s, tf, sig)] = NoHist)
          => /\ lastReturn'.listed
             /\ lastReturn'.active]_vars

====
